---- MODULE Spec2Model ----
(***************************************************************************)
(* A model of the realtime MIDI event pipeline of seq66 (rtmidi back end): *)
(*                                                                         *)
(*   - midi_queue, the ring buffer of midi_message (rtmidi_types.hpp);     *)
(*   - rtmidi / rtmidi_in / rtmidi_out, which own the API object of a bus  *)
(*     (rtmidi.cpp), and midi_api, the API object itself (midi_api.hpp);   *)
(*   - midi_alsa_info, the ALSA port registry and event reader             *)
(*     (midi_alsa_info.cpp), and mastermidibus::api_init                   *)
(*     (mastermidibus.cpp).                                                *)
(*                                                                         *)
(* Each part has its own specification (SpecQueue, SpecRtmidi, SpecAlsa,   *)
(* and those that follow them);                                            *)
(* the variables of the other parts are parked at a fixed value.           *)
(***************************************************************************)
EXTENDS Integers, Sequences, FiniteSets, TLC

VARIABLES
    \* ---- midi_queue (rtmidi_types.hpp) and its observers
    m_front,            \* unsigned m_front: index of the oldest message
    m_back,             \* unsigned m_back: index of the next free slot
    m_size,             \* unsigned m_size: number of queued messages
    m_ring,             \* midi_message * m_ring: the slots, 0..m_ring_size-1
    q_op,               \* the last queue operation performed
    q_ret,              \* what that operation returned
    q_adds,             \* number of add() calls so far (the message ids)
    q_sent,             \* the messages add() accepted, in order
    q_recv,             \* the messages handed to the consumer, in order
    \* ---- rtmidi, rtmidi_in, rtmidi_out (rtmidi.cpp), midi_api (midi_api.hpp)
    build,              \* what the build and the rc() settings provide
    selected_api,       \* static rtmidi_info::selected_api()
    info_port_count,    \* info.get_api_info()->get_port_count()
    rt_obj,             \* the rtmidi object of the bus: "none", "in", "out"
    m_midi_api,         \* rtmidi::m_midi_api: NullApi or the API object
    heap,               \* the midi_api objects now allocated, by address
    rt_op,              \* the last rtmidi operation performed
    rt_ret,             \* what it returned, or "rterror" when it threw
    rt_sel0,            \* selected_api() when the last constructor began
    \* ---- midi_alsa_info (midi_alsa_info.cpp), mastermidibus (mastermidibus.cpp)
    m_alsa_seq,         \* whether snd_seq_open gave a sequencer handle
    sys_ports,          \* the ports of the other ALSA clients, now
    alsa_events,        \* the events ALSA holds for snd_seq_event_input
    manual_ports,       \* rc().manual_ports()
    manual_port_count,  \* rc().manual_port_count()
    input_ports,        \* midi_info::input_ports(): the port entries
    output_ports,       \* midi_info::output_ports()
    m_inbus_array,      \* mastermidibase::m_inbus_array
    m_outbus_array,     \* mastermidibase::m_outbus_array
    m_ppqn,             \* midi_info PPQN
    m_bpm,              \* midi_info BPM
    queue_ppq,          \* the PPQ of the ALSA queue
    queue_tempo,        \* the tempo of the ALSA queue, microseconds/beat
    a_init,             \* whether api_init has run
    a_op,               \* the last registry operation performed
    a_ret,              \* what it returned
    a_ev,               \* the event api_get_midi_event last read
    \* ---- the two threads that share one midi_queue
    p_pc,               \* where the callback thread is inside add()
    p_reg,              \* the m_size it loaded for "++m_size"
    c_pc,               \* where the consumer thread is inside pop_front()
    c_reg,              \* the m_size it loaded for "--m_size"
    \* ---- closing an input bus under the driver's callback, per bus
    m_suspended,        \* midi_api::m_suspended
    m_is_enabled,       \* rtmidi_in_data::m_is_enabled
    k_native,           \* the native resources: "allocated" or "freed"
    k_close,            \* the application thread: "open", "marked", "freed"
    cb_pc,              \* the driver thread: "idle" or "forward"
    cb_new,             \* whether the callback in flight began after the mark
    k_calls,            \* callbacks begun so far
    k_late,             \* an event was forwarded after the mark
    k_late_new,         \* ... by a callback that began after the mark
    k_bad,              \* a callback touched the bus after it was freed
    \* ---- midi_jack_data (midi_jack_data.hpp): the frame factor
    sm_jack_frame_rate,         \* static jack_nframes_t sm_jack_frame_rate
    sm_jack_ticks_per_beat,     \* static double sm_jack_ticks_per_beat
    sm_jack_beats_per_minute,   \* static double sm_jack_beats_per_minute
    sm_jack_frame_factor,       \* static double sm_jack_frame_factor, n/d
    j_op,               \* the last midi_jack_data operation performed
    j_pulse,            \* the pulse count last converted
    j_frames,           \* the frames it gave
    j_back,             \* the pulses those frames gave back
    \* ---- one poll and one api_get_midi_event call, step by step
    s_pc,               \* where the input thread is
    s_waited,           \* milliseconds the poll() call took
    s_stream,           \* the events ALSA still holds, oldest first
    s_ev,               \* what "ev" points to
    s_rem,              \* remcount of the last snd_seq_event_input
    s_sysex,            \* the local "sysex" of the loop
    s_ret,              \* what api_get_midi_event returned
    \* ---- listsbase
    m_master_io,        \* the items of the list, in order
    l_op,               \* the last operation on the list
    l_ret,              \* what it returned
    l_lines,            \* the lines port_map_list gave
    l_rebuilt,          \* the list add_list_line built from them
    l_results,          \* what add_list_line did with each line
    \* ---- midicontrolout
    m_ui_events,        \* an actiontriplet per uiaction
    m_is_blank,         \* no event was ever set
    o_op,               \* the last operation
    o_what,             \* its arguments
    o_enabled,
    o_onp,
    o_offp,
    \* ---- midi_api::error
    m_error_callback,       \* an error callback is installed
    m_first_error_occurred,
    e_depth,                \* the callback invocations in progress
    e_raised,               \* the errors raised with a callback installed
    e_delivered,            \* those handed to the callback
    e_discarded,            \* those dropped
    e_thrown,               \* a callback was left by an exception
    e_op                    \* the last step

qvars == <<m_front, m_back, m_size, m_ring, q_op, q_ret, q_adds, q_sent, q_recv>>

rvars == <<build, selected_api, info_port_count, rt_obj, m_midi_api, heap,
           rt_op, rt_ret, rt_sel0>>

avars == <<m_alsa_seq, sys_ports, alsa_events, manual_ports, manual_port_count,
           input_ports, output_ports, m_inbus_array, m_outbus_array,
           m_ppqn, m_bpm, queue_ppq, queue_tempo, a_init, a_op, a_ret, a_ev>>

tvars == <<p_pc, p_reg, c_pc, c_reg>>

\* The variables added for the parts modelled after the first three.
kvars == <<m_suspended, m_is_enabled, k_native, k_close, cb_pc, cb_new,
           k_calls, k_late, k_late_new, k_bad>>

jvars == <<sm_jack_frame_rate, sm_jack_ticks_per_beat,
           sm_jack_beats_per_minute, sm_jack_frame_factor, j_op, j_pulse,
           j_frames, j_back>>

svars == <<s_pc, s_waited, s_stream, s_ev, s_rem, s_sysex, s_ret>>

lvars == <<m_master_io, l_op, l_ret, l_lines, l_rebuilt, l_results>>

ovars == <<m_ui_events, m_is_blank, o_op, o_what, o_enabled, o_onp, o_offp>>

evars == <<m_error_callback, m_first_error_occurred, e_depth, e_raised,
           e_delivered, e_discarded, e_thrown, e_op>>

zvars == <<lvars, ovars, evars>>

xvars == <<tvars, kvars, jvars, svars, zvars>>

vars == <<qvars, rvars, avars, xvars>>

-----------------------------------------------------------------------------
(* midi_queue *)

\* m_ring_size, as set by allocate(queuesize); SEQ66_DEFAULT_QUEUE_SIZE in
\* the program, a small ring here.
RingSize == 3

\* The number of add() calls explored.
MaxAdds == 7

\* A default-constructed midi_message (no bytes).
NoMessage == "none"

m_ring_size == RingSize

empty == m_size = 0

count == m_size

\* A full() that compares against the wrong limit and so never reports full.
full_OffByOne == m_size = m_ring_size + 1

full == m_size = m_ring_size

front == m_ring[m_front]

\* The ring index after i: "++i; if (i == m_ring_size) i = 0".
RingNext(i) == IF i + 1 = m_ring_size THEN 0 ELSE i + 1

\* bool midi_queue::add (const midi_message &): stores the message at
\* m_back unless the queue is full; a full queue rejects the message and
\* changes no member.
add(mmsg) ==
    /\ q_op' = "add"
    /\ q_adds' = q_adds + 1
    /\ IF ~ full
         THEN /\ m_ring' = [m_ring EXCEPT ![m_back] = mmsg]
              /\ m_back' = RingNext(m_back)
              /\ m_size' = m_size + 1
              /\ q_sent' = Append(q_sent, mmsg)
              /\ q_ret' = TRUE
         ELSE /\ UNCHANGED <<m_ring, m_back, m_size, q_sent>>
              /\ q_ret' = FALSE
    /\ UNCHANGED <<m_front, q_recv>>

\* The members after void midi_queue::pop (): drops the oldest message.
PopMembers ==
    /\ m_size' = m_size - 1
    /\ m_front' = RingNext(m_front)
    /\ UNCHANGED <<m_ring, m_back>>

\* The consumer's "front(); pop()" pair, done only on a non-empty queue.
pop ==
    /\ ~ empty
    /\ q_op' = "pop"
    /\ q_ret' = front
    /\ q_recv' = Append(q_recv, front)
    /\ PopMembers
    /\ UNCHANGED <<q_adds, q_sent>>

\* midi_message midi_queue::pop_front (): the oldest message, or a
\* default-constructed one when the queue is empty.
pop_front ==
    /\ q_op' = "pop_front"
    /\ IF ~ empty
         THEN /\ q_ret' = front
              /\ q_recv' = Append(q_recv, front)
              /\ PopMembers
         ELSE /\ q_ret' = NoMessage
              /\ UNCHANGED <<m_front, m_back, m_size, m_ring, q_recv>>
    /\ UNCHANGED <<q_adds, q_sent>>

\* midi_queue::allocate(): an empty ring of m_ring_size default messages.
InitQueue ==
    /\ m_front = 0
    /\ m_back = 0
    /\ m_size = 0
    /\ m_ring = [i \in 0 .. m_ring_size - 1 |-> NoMessage]
    /\ q_op = "allocate"
    /\ q_ret = NoMessage
    /\ q_adds = 0
    /\ q_sent = << >>
    /\ q_recv = << >>

\* The producer (the input callback) adds message number q_adds + 1.
Producer ==
    /\ q_adds < MaxAdds
    /\ add(q_adds + 1)

\* The queued messages, oldest first.
QueueContents == [i \in 1 .. m_size |-> m_ring[(m_front + i - 1) % m_ring_size]]

\* The integer members of midi_queue: all there is to count with.
QueueCounters == <<m_front, m_back, m_size>>

-----------------------------------------------------------------------------
(* midi_queue shared by the callback thread and the consumer thread *)

\* add() and pop_front() one memory access at a time.  m_size is a plain
\* unsigned that add() increments and pop() decrements, with no lock and no
\* atomic: each "++m_size" / "--m_size" is a load and a store.

\* add(): "if (! full())", or the return of false on a full queue.
AddTestFull ==
    /\ p_pc = "idle"
    /\ q_adds < MaxAdds
    /\ q_adds' = q_adds + 1
    /\ q_op' = "add"
    /\ IF full THEN q_ret' = FALSE /\ p_pc' = "idle"
               ELSE q_ret' = q_ret /\ p_pc' = "store"
    /\ UNCHANGED <<m_front, m_back, m_size, m_ring, q_sent, q_recv,
                   p_reg, c_pc, c_reg>>

\* add(): "m_ring[m_back] = mmsg" and the advance of m_back.
AddStore ==
    /\ p_pc = "store"
    /\ m_ring' = [m_ring EXCEPT ![m_back] = q_adds]
    /\ m_back' = RingNext(m_back)
    /\ q_sent' = Append(q_sent, q_adds)
    /\ p_pc' = "load"
    /\ UNCHANGED <<m_front, m_size, q_op, q_ret, q_adds, q_recv,
                   p_reg, c_pc, c_reg>>

\* add(): the load of "++m_size".
AddLoadSize ==
    /\ p_pc = "load"
    /\ p_reg' = m_size
    /\ p_pc' = "inc"
    /\ UNCHANGED <<qvars, c_pc, c_reg>>

\* add(): the store of "++m_size", and the return of true.
AddStoreSize ==
    /\ p_pc = "inc"
    /\ m_size' = p_reg + 1
    /\ q_ret' = TRUE
    /\ p_pc' = "idle"
    /\ UNCHANGED <<m_front, m_back, m_ring, q_op, q_adds, q_sent, q_recv,
                   p_reg, c_pc, c_reg>>

\* pop_front(): "if (m_size != 0) mmsg = m_ring[m_front]".
PopTestEmpty ==
    /\ c_pc = "idle"
    /\ ~ empty
    /\ q_recv' = Append(q_recv, front)
    /\ c_pc' = "load"
    /\ UNCHANGED <<m_front, m_back, m_size, m_ring, q_op, q_ret, q_adds,
                   q_sent, p_pc, p_reg, c_reg>>

\* pop(): the load of "--m_size".
PopLoadSize ==
    /\ c_pc = "load"
    /\ c_reg' = m_size
    /\ c_pc' = "dec"
    /\ UNCHANGED <<qvars, p_pc, p_reg>>

\* pop(): the store of "--m_size"; the value loaded is never 0 here (see
\* C11_IndicesInRing), so the unsigned does not wrap.
PopStoreSize ==
    /\ c_pc = "dec"
    /\ m_size' = c_reg - 1
    /\ c_pc' = "front"
    /\ UNCHANGED <<m_front, m_back, m_ring, q_op, q_ret, q_adds, q_sent,
                   q_recv, p_pc, p_reg, c_reg>>

\* pop(): the advance of m_front.
PopAdvance ==
    /\ c_pc = "front"
    /\ m_front' = RingNext(m_front)
    /\ c_pc' = "idle"
    /\ UNCHANGED <<m_back, m_size, m_ring, q_op, q_ret, q_adds, q_sent,
                   q_recv, p_pc, p_reg, c_reg>>

\* Both threads outside the queue.
InitThreads ==
    /\ p_pc = "idle"
    /\ p_reg = 0
    /\ c_pc = "idle"
    /\ c_reg = 0

ParkedThreads == InitThreads

-----------------------------------------------------------------------------
(* midi_api: the API object of one bus *)

\* The number of midi_api objects the allocator can hold at once; "new
\* (std::nothrow)" yields a null pointer beyond it.
MaxObjects == 3

\* The largest port count the registry reports.
MaxPortCount == 2

\* nullptr, as rtmidi::rtmidi sets m_midi_api; addresses start at 1.
NullApi == 0

Apis == {"JACK", "ALSA"}

\* midi_api::midi_api: not connected, not suspended; "native" is the
\* subscription to the system port, none yet.
midi_api(api) ==
    [api |-> api, m_connected |-> FALSE, m_suspended |-> FALSE,
     native |-> FALSE]

is_port_open(o) == o.m_connected

is_port_suspended(o) == o.m_suspended

set_port_open(o) == [o EXCEPT !.m_connected = TRUE]

set_port_suspended(o, flag) == [o EXCEPT !.m_suspended = flag]

\* An api_init_out that marks the port open before it knows the outcome.
api_init_out_EarlyOpen(o, exists) ==
    IF exists
      THEN [obj |-> set_port_open([o EXCEPT !.native = TRUE]), ret |-> TRUE]
      ELSE [obj |-> set_port_open(o), ret |-> FALSE]

\* bool api_init_out (): subscribes to the system port of the bus.  A port
\* that does not exist is an error reported to the caller, and nothing of
\* the connection is kept.
api_init_out(o, exists) ==
    IF exists
      THEN [obj |-> set_port_open([o EXCEPT !.native = TRUE]), ret |-> TRUE]
      ELSE [obj |-> o, ret |-> FALSE]

\* An api_deinit_out that reports the failed unsubscription of a port that
\* has no subscription.
api_deinit_out_Strict(o) ==
    [obj |-> [o EXCEPT !.native = FALSE], ret |-> o.native]

\* bool api_deinit_out (): drops the subscription if there is one; safe,
\* and a success, when there is none.
api_deinit_out(o) ==
    [obj |-> [o EXCEPT !.native = FALSE], ret |-> TRUE]

-----------------------------------------------------------------------------
(* rtmidi: the owner of the API object *)

\* An rtmidi's hold on the heap: st.api is m_midi_api, st.heap the objects.
RtState(api, h) == [api |-> api, heap |-> h]

\* Whether the build holds the class for this API ("#if defined
\* SEQ66_BUILD_UNIX_JACK && defined SEQ66_JACK_SUPPORT", "#if defined
\* SEQ66_BUILD_LINUX_ALSA").
Compiled(api) ==
    IF api = "JACK" THEN build.jack /\ build.jack_support
    ELSE IF api = "ALSA" THEN build.alsa
    ELSE FALSE

\* new (std::nothrow): a free address, or none.
FreeAddresses(h) == (1 .. MaxObjects) \ DOMAIN h

\* rtmidi::delete_api (): destroys the API object, if any.
delete_api(st) ==
    IF st.api = NullApi THEN st
    ELSE RtState(NullApi, [a \in DOMAIN st.heap \ {st.api} |-> st.heap[a]])

\* "new (std::nothrow) midi_in_xxx(...); if (not_nullptr(p)) set_api(p)".
NewApi(st, api) ==
    IF Compiled(api) /\ FreeAddresses(st.heap) # {}
      THEN LET a == CHOOSE x \in FreeAddresses(st.heap) :
                        \A y \in FreeAddresses(st.heap) : x <= y
           IN  RtState(a, [x \in DOMAIN st.heap \cup {a} |->
                              IF x = a THEN midi_api(api) ELSE st.heap[x]])
      ELSE st

\* The body of openmidi_api after its delete_api() call.  With
\* RTMIDI_API_UNSPECIFIED the two inner tests compare that same api with
\* JACK and with ALSA.
OpenApiBody(st, api) ==
    IF api = "UNSPECIFIED"
      THEN LET j == IF build.with_jack_midi /\ api = "JACK"
                      THEN NewApi(st, "JACK") ELSE st
               got_an_api == j.api # NullApi
           IN  IF ~ got_an_api /\ api = "ALSA" THEN NewApi(j, "ALSA") ELSE j
    ELSE IF api = "JACK" THEN NewApi(st, "JACK")
    ELSE IF api = "ALSA" THEN NewApi(st, "ALSA")
    ELSE st

\* An openmidi_api that forgets to destroy the API object it replaces.
openmidi_api_NoDelete(st, api) == OpenApiBody(st, api)

\* rtmidi_in::openmidi_api and rtmidi_out::openmidi_api (which differ in a
\* message only): destroy the current API object, then build the new one.
openmidi_api(st, api) == OpenApiBody(delete_api(st), api)

\* rtmidi_info::get_compiled_api: the compiled-in back ends, JACK first.
get_compiled_api ==
    (IF build.jack THEN <<"JACK">> ELSE << >>) \o
    (IF build.alsa THEN <<"ALSA">> ELSE << >>)

\* A probe loop that does not stop at a back end with ports.
RECURSIVE ProbeApis_NoBreak(_, _, _)
ProbeApis_NoBreak(st, sel, apis) ==
    IF apis = << >> THEN [st |-> st, sel |-> sel]
    ELSE ProbeApis_NoBreak(openmidi_api(st, Head(apis)),
                           IF info_port_count > 0 THEN Head(apis) ELSE sel,
                           Tail(apis))

\* The fallback loop of both constructors: open each compiled API in turn
\* and stop at the first one after which the registry counts a port.
RECURSIVE ProbeApis(_, _, _)
ProbeApis(st, sel, apis) ==
    IF apis = << >> THEN [st |-> st, sel |-> sel]
    ELSE LET o == openmidi_api(st, Head(apis))
         IN  IF info_port_count > 0
               THEN [st |-> o, sel |-> Head(apis)]
               ELSE ProbeApis(o, sel, Tail(apis))

\* The end of both constructors: the fallback loop, then "throw(rterror)"
\* if there is no API object.  A constructor that throws leaves no object:
\* the rtmidi base is destroyed again.
ProbeOrThrow(kind) ==
    LET r == ProbeApis(RtState(NullApi, heap), selected_api, get_compiled_api)
    IN  /\ selected_api' = r.sel
        /\ IF r.st.api = NullApi
             THEN /\ rt_obj' = "none"
                  /\ rt_ret' = "rterror"
                  /\ m_midi_api' = NullApi
                  /\ heap' = r.st.heap
             ELSE /\ rt_obj' = kind
                  /\ rt_ret' = "constructed"
                  /\ m_midi_api' = r.st.api
                  /\ heap' = r.st.heap

\* rtmidi_in::rtmidi_in
rtmidi_in ==
    /\ rt_obj = "none"
    /\ rt_op' = "rtmidi_in"
    /\ rt_sel0' = selected_api
    /\ IF selected_api # "UNSPECIFIED"
         THEN LET o == openmidi_api(RtState(NullApi, heap), selected_api)
              IN  /\ m_midi_api' = o.api
                  /\ heap' = o.heap
                  /\ rt_obj' = "in"
                  /\ rt_ret' = "constructed"
                  /\ UNCHANGED selected_api
         ELSE ProbeOrThrow("in")
    /\ UNCHANGED <<build, info_port_count>>

\* rtmidi_out::rtmidi_out
rtmidi_out ==
    /\ rt_obj = "none"
    /\ rt_op' = "rtmidi_out"
    /\ rt_sel0' = selected_api
    /\ LET o == IF selected_api # "UNSPECIFIED"
                  THEN openmidi_api(RtState(NullApi, heap), selected_api)
                  ELSE RtState(NullApi, heap)
       IN  IF o.api # NullApi
             THEN /\ m_midi_api' = o.api
                  /\ heap' = o.heap
                  /\ rt_obj' = "out"
                  /\ rt_ret' = "constructed"
                  /\ UNCHANGED selected_api
             ELSE ProbeOrThrow("out")
    /\ UNCHANGED <<build, info_port_count>>

\* A later openmidi_api(api, info) call on the constructed object.
Reopen(api) ==
    /\ rt_obj \in {"in", "out"}
    /\ rt_op' = "openmidi_api"
    /\ rt_ret' = api
    /\ LET o == openmidi_api(RtState(m_midi_api, heap), api)
       IN  /\ m_midi_api' = o.api
           /\ heap' = o.heap
    /\ UNCHANGED <<build, selected_api, info_port_count, rt_obj, rt_sel0>>

\* rtmidi::~rtmidi
rtmidi_dtor ==
    /\ rt_obj \in {"in", "out"}
    /\ rt_op' = "~rtmidi"
    /\ rt_ret' = "destroyed"
    /\ LET o == delete_api(RtState(m_midi_api, heap))
       IN  /\ m_midi_api' = o.api
           /\ heap' = o.heap
    /\ rt_obj' = "none"
    /\ UNCHANGED <<build, selected_api, info_port_count, rt_sel0>>

\* The bus opens its port: api_init_out on the API object, once per API
\* object that is not open yet (a bus that reopens builds a new one).
OpenPort(exists) ==
    /\ rt_obj \in {"in", "out"}
    /\ m_midi_api # NullApi
    /\ ~ heap[m_midi_api].m_connected
    /\ rt_op' = IF exists THEN "api_init_out" ELSE "api_init_out (no port)"
    /\ LET r == api_init_out(heap[m_midi_api], exists)
       IN  /\ heap' = [heap EXCEPT ![m_midi_api] = r.obj]
           /\ rt_ret' = IF r.ret THEN "true" ELSE "false"
    /\ UNCHANGED <<build, selected_api, info_port_count, rt_obj, m_midi_api,
                   rt_sel0>>

\* The bus closes its port: api_deinit_out on the API object.
ClosePort ==
    /\ rt_obj \in {"in", "out"}
    /\ m_midi_api # NullApi
    /\ rt_op' = IF rt_op = "api_deinit_out"
                  THEN "api_deinit_out (again)" ELSE "api_deinit_out"
    /\ LET r == api_deinit_out(heap[m_midi_api])
       IN  /\ heap' = [heap EXCEPT ![m_midi_api] = r.obj]
           /\ rt_ret' = IF r.ret THEN "true" ELSE "false"
    /\ UNCHANGED <<build, selected_api, info_port_count, rt_obj, m_midi_api,
                   rt_sel0>>

\* A derived class calls the protected set_port_suspended(flag) on the
\* API object; the setter asks nothing about the port.
SuspendPort(flag) ==
    /\ rt_obj \in {"in", "out"}
    /\ m_midi_api # NullApi
    /\ rt_op' = "set_port_suspended"
    /\ rt_ret' = IF flag THEN "true" ELSE "false"
    /\ heap' = [heap EXCEPT ![m_midi_api] = set_port_suspended(@, flag)]
    /\ UNCHANGED <<build, selected_api, info_port_count, rt_obj, m_midi_api,
                   rt_sel0>>

\* Before any bus is built: any build, any selected API, any port count.
InitRtmidi ==
    /\ build \in [jack : BOOLEAN, jack_support : BOOLEAN, alsa : BOOLEAN,
                  with_jack_midi : BOOLEAN]
    /\ selected_api \in {"UNSPECIFIED"} \cup Apis
    /\ info_port_count \in 0 .. MaxPortCount
    /\ rt_obj = "none"
    /\ m_midi_api = NullApi
    /\ heap = << >>
    /\ rt_op = "start"
    /\ rt_ret = "none"
    /\ rt_sel0 = selected_api

\* The rtmidi part when another part is under study.
ParkedRtmidi ==
    /\ build = [jack |-> TRUE, jack_support |-> TRUE, alsa |-> TRUE,
                with_jack_midi |-> FALSE]
    /\ selected_api = "ALSA"
    /\ info_port_count = 0
    /\ rt_obj = "none"
    /\ m_midi_api = NullApi
    /\ heap = << >>
    /\ rt_op = "start"
    /\ rt_ret = "none"
    /\ rt_sel0 = "ALSA"

-----------------------------------------------------------------------------
(* midi_alsa_info: the ALSA port registry *)

\* The other ALSA clients; each has at most one port, port 0.
Clients == {1, 2}

\* The most events ALSA holds for the application at once.
MaxEvents == 1

\* The largest rc().manual_port_count() explored.
MaxVirtual == 3

\* SND_SEQ_CLIENT_SYSTEM and SND_SEQ_PORT_SYSTEM_ANNOUNCE (seq.h).
SND_SEQ_CLIENT_SYSTEM == 0

SND_SEQ_PORT_SYSTEM_ANNOUNCE == 1

\* The client number of the application's own ports.
OwnClient == Cardinality(Clients) + 1

\* What a port of another client can be: readable (both read bits),
\* writable (both write bits), both, or not a generic MIDI or synth port.
PortKinds == {"in", "out", "duplex", "other"}

SystemPorts == [client : Clients, port : {0}, kind : PortKinds]

\* check_port_type: true for a port that is neither MIDI-generic nor synth.
check_port_type(p) == p.kind = "other"

\* (caps & sm_input_caps) == sm_input_caps
HasInputCaps(p) == p.kind \in {"in", "duplex"}

\* (caps & sm_output_caps) == sm_output_caps
HasOutputCaps(p) == p.kind \in {"out", "duplex"}

\* One entry of a port list, as midi_port_info::add stores it.
PortEntry(client, port, virtual, system) ==
    [client |-> client, port |-> port, virtual |-> virtual,
     system |-> system]

AnnounceEntry ==
    PortEntry(SND_SEQ_CLIENT_SYSTEM, SND_SEQ_PORT_SYSTEM_ANNOUNCE, FALSE, TRUE)

\* The two nested query loops of get_all_port_info, from client c on:
\* clients come in ascending order, ports of the wrong type are skipped,
\* a readable port is added to the inputs, a writable one to the outputs.
RECURSIVE ScanPorts(_, _, _)
ScanPorts(c, inputs, outputs) ==
    IF c \notin Clients THEN [inputs |-> inputs, outputs |-> outputs]
    ELSE LET here == {p \in sys_ports : p.client = c /\ ~ check_port_type(p)}
             ins == IF \E p \in here : HasInputCaps(p)
                      THEN Append(inputs, PortEntry(c, 0, FALSE, FALSE))
                      ELSE inputs
             outs == IF \E p \in here : HasOutputCaps(p)
                       THEN Append(outputs, PortEntry(c, 0, FALSE, FALSE))
                       ELSE outputs
         IN  ScanPorts(c + 1, ins, outs)

\* "if (count == 0) count = -1": count is the number of entries added.
PortCountOrError(lists) ==
    LET n == Len(lists.inputs) + Len(lists.outputs)
    IN  [inputs |-> lists.inputs, outputs |-> lists.outputs,
         ret |-> IF n = 0 THEN -1 ELSE n]

\* A get_all_port_info that does not clear the lists before it fills them.
get_all_port_info_NoClear ==
    IF m_alsa_seq
      THEN LET l == ScanPorts(1, Append(input_ports, AnnounceEntry),
                              output_ports)
               n == (Len(l.inputs) - Len(input_ports))
                      + (Len(l.outputs) - Len(output_ports))
           IN  [inputs |-> l.inputs, outputs |-> l.outputs, ret |-> n]
      ELSE [inputs |-> input_ports, outputs |-> output_ports, ret |-> -1]

\* A get_all_port_info that leaves out the announce port.
get_all_port_info_NoAnnounce ==
    IF m_alsa_seq
      THEN PortCountOrError(ScanPorts(1, << >>, << >>))
      ELSE [inputs |-> input_ports, outputs |-> output_ports, ret |-> -1]

\* int midi_alsa_info::get_all_port_info (): with a sequencer handle, both
\* lists are cleared, the announce port is the first input, and the ports
\* of the other clients follow; without one, nothing is touched and the
\* count stays 0, which is returned as -1.
get_all_port_info ==
    IF m_alsa_seq
      THEN PortCountOrError(ScanPorts(1, <<AnnounceEntry>>, << >>))
      ELSE [inputs |-> input_ports, outputs |-> output_ports, ret |-> -1]

\* The registry enumerates, as it does when it is built and before
\* api_init builds the busses from its lists; a second call in a row is
\* marked as such.
Enumerate ==
    /\ ~ a_init
    /\ a_op' = IF a_op \in {"get_all_port_info", "get_all_port_info (again)"}
                 THEN "get_all_port_info (again)" ELSE "get_all_port_info"
    /\ LET r == get_all_port_info
       IN  /\ input_ports' = r.inputs
           /\ output_ports' = r.outputs
           /\ a_ret' = r.ret
    /\ UNCHANGED <<m_alsa_seq, sys_ports, alsa_events, manual_ports,
                   manual_port_count, m_inbus_array, m_outbus_array,
                   m_ppqn, m_bpm, queue_ppq, queue_tempo, a_init, a_ev>>

-----------------------------------------------------------------------------
(* mastermidibus::api_init and the busses *)

\* The PPQN and BPM values api_init is given.
PpqnValues == {96}

BpmValues == {60, 120}

\* tempo_us_from_bpm: microseconds per beat.
tempo_us_from_bpm(b) == 60000000 \div b

\* bool api_init_in (): as api_init_out, for an input port.
api_init_in(o, exists) == api_init_out(o, exists)

\* bool api_init_out_sub () / api_init_in_sub (): a virtual port is a new
\* port of the application itself, connected to nothing; it opens.
api_init_sub(o) ==
    [obj |-> set_port_open([o EXCEPT !.native = TRUE]), ret |-> TRUE]

\* Whether client:port is on the system now; the announce port always is.
PortExists(client, port) ==
    \/ client = SND_SEQ_CLIENT_SYSTEM /\ port = SND_SEQ_PORT_SYSTEM_ANNOUNCE
    \/ client = OwnClient
    \/ \E p \in sys_ports : p.client = client /\ p.port = port

\* midibus::midibus (master, index, isvirtual, isinput, bussoverride,
\* issystem): a bus for the port entry at that index, with its API object.
NewBus(index, e, virtual, input, system) ==
    [index |-> index, client |-> e.client, port |-> e.port,
     virtual |-> virtual, input |-> input, system |-> system,
     api |-> midi_api("ALSA")]

\* busarray::add makes the businfo, which calls init_in(), init_out(),
\* init_in_sub() or init_out_sub() on the bus.
AddBus(b) ==
    LET r == IF b.virtual THEN api_init_sub(b.api)
             ELSE IF b.input
               THEN api_init_in(b.api, PortExists(b.client, b.port))
               ELSE api_init_out(b.api, PortExists(b.client, b.port))
    IN  [b EXCEPT !.api = r.obj]

is_open(b) == is_port_open(b.api)

\* A loop that stops one bus short.
ManualOutputBusses_OneShort(n) ==
    [i \in 1 .. n - 1 |->
        AddBus(NewBus(i - 1, PortEntry(OwnClient, i - 1, TRUE, FALSE),
                      TRUE, FALSE, FALSE))]

\* "for (int i = 0; i < num_buses; ++i)": one virtual output bus each.
ManualOutputBusses(n) ==
    [i \in 1 .. n |->
        AddBus(NewBus(i - 1, PortEntry(OwnClient, i - 1, TRUE, FALSE),
                      TRUE, FALSE, FALSE))]

\* The one virtual input bus of the manual set-up.
ManualInputBusses ==
    <<AddBus(NewBus(0, PortEntry(OwnClient, 0, TRUE, FALSE),
                    TRUE, TRUE, FALSE))>>

\* A loop over a port list that skips its last entry.
BussesFor_OneShort(list, input) ==
    [i \in 1 .. Len(list) - 1 |->
        AddBus(NewBus(i - 1, list[i], list[i].virtual, input,
                      list[i].system))]

\* The busses the second branch of api_init builds from one port list:
\* bus i for entry i, an input or an output bus as "input" says.
BussesFor(list, input) ==
    [i \in 1 .. Len(list) |->
        AddBus(NewBus(i - 1, list[i], list[i].virtual, input,
                      list[i].system))]

\* midi_info::add_output / add_input: the entry of a bus in a port list.
BusEntries(busses) ==
    [i \in 1 .. Len(busses) |->
        PortEntry(busses[i].client, busses[i].port, busses[i].virtual,
                  busses[i].system)]

\* void mastermidibus::api_init (int ppqn, midibpm bpm)
api_init(ppqn, bpm) ==
    /\ m_alsa_seq
    /\ ~ a_init
    /\ a_init' = TRUE
    /\ a_op' = "api_init"
    /\ a_ret' = 0
    /\ m_ppqn' = ppqn
    /\ queue_ppq' = ppqn
    /\ m_bpm' = bpm
    /\ queue_tempo' = tempo_us_from_bpm(bpm)
    /\ IF manual_ports
         THEN /\ m_outbus_array' = ManualOutputBusses(manual_port_count)
              /\ m_inbus_array' = ManualInputBusses
              /\ output_ports' =
                    BusEntries(ManualOutputBusses(manual_port_count))
              /\ input_ports' = BusEntries(ManualInputBusses)
         ELSE LET nports == Len(input_ports) + Len(output_ports)
                  swap_io == build.with_jack_midi
                  ins == BussesFor(input_ports, ~ swap_io)
                  outs == BussesFor(output_ports, swap_io)
              IN  /\ IF nports > 0
                       THEN /\ m_inbus_array' =
                                  IF swap_io THEN outs ELSE ins
                            /\ m_outbus_array' =
                                  IF swap_io THEN ins ELSE outs
                       ELSE UNCHANGED <<m_inbus_array, m_outbus_array>>
                  /\ UNCHANGED <<input_ports, output_ports>>
    /\ UNCHANGED <<m_alsa_seq, sys_ports, alsa_events, manual_ports,
                   manual_port_count, a_ev>>

-----------------------------------------------------------------------------
(* The ALSA system around the application, and api_get_midi_event *)

NoEvent == [type |-> "none", client |-> 0, port |-> 0]

AlsaEvent(type, client, port) ==
    [type |-> type, client |-> client, port |-> port]

\* The events "case SND_SEQ_EVENT_..." names in api_get_midi_event.
AnnounceTypes ==
    {"client_start", "client_exit", "client_change", "port_start",
     "port_exit", "port_change", "port_subscribed", "port_unsubscribed"}

\* The application hears of port changes once a bus of its own is
\* subscribed to the announce port.
AnnounceSubscribed ==
    \E i \in 1 .. Len(m_inbus_array) :
        /\ m_inbus_array[i].client = SND_SEQ_CLIENT_SYSTEM
        /\ m_inbus_array[i].port = SND_SEQ_PORT_SYSTEM_ANNOUNCE
        /\ m_inbus_array[i].api.native

Announce(type, client, port) ==
    IF AnnounceSubscribed
      THEN alsa_events' = Append(alsa_events, AlsaEvent(type, client, port))
      ELSE UNCHANGED alsa_events

\* Another client opens a port (a device is plugged in).
PortAppears(c, kind) ==
    /\ ~ \E p \in sys_ports : p.client = c
    /\ Len(alsa_events) < MaxEvents
    /\ sys_ports' = sys_ports \cup {[client |-> c, port |-> 0, kind |-> kind]}
    /\ Announce("port_start", c, 0)
    /\ a_op' = "system"
    /\ UNCHANGED <<m_alsa_seq, manual_ports, manual_port_count, input_ports,
                   output_ports, m_inbus_array, m_outbus_array, m_ppqn,
                   m_bpm, queue_ppq, queue_tempo, a_init, a_ret, a_ev>>

\* A port of another client goes away (a device is unplugged).
PortExits(c) ==
    /\ \E p \in sys_ports : p.client = c
    /\ Len(alsa_events) < MaxEvents
    /\ sys_ports' = {p \in sys_ports : p.client # c}
    /\ Announce("port_exit", c, 0)
    /\ a_op' = "system"
    /\ UNCHANGED <<m_alsa_seq, manual_ports, manual_port_count, input_ports,
                   output_ports, m_inbus_array, m_outbus_array, m_ppqn,
                   m_bpm, queue_ppq, queue_tempo, a_init, a_ret, a_ev>>

\* A readable port that an open input bus is connected to sends a note.
NoteArrives(c) ==
    /\ \E p \in sys_ports : p.client = c /\ HasInputCaps(p)
    /\ \E i \in 1 .. Len(m_inbus_array) :
          /\ m_inbus_array[i].api.native
          /\ m_inbus_array[i].client = c \/ m_inbus_array[i].virtual
    /\ Len(alsa_events) < MaxEvents
    /\ alsa_events' = Append(alsa_events, AlsaEvent("note", c, 0))
    /\ a_op' = "system"
    /\ UNCHANGED <<m_alsa_seq, sys_ports, manual_ports, manual_port_count,
                   input_ports, output_ports, m_inbus_array, m_outbus_array,
                   m_ppqn, m_bpm, queue_ppq, queue_tempo, a_init, a_ret,
                   a_ev>>

\* snd_midi_event_decode: the number of MIDI bytes of the event, none for
\* an event that is no MIDI message.
DecodedBytes(ev) == IF ev.type = "note" THEN 3 ELSE 0

\* An api_get_midi_event that returns false for the port events of its
\* "\return" comment only, and true otherwise.
GetMidiEventResult_PortEventsOnly(ev, new_ok) ==
    ~ (~ manual_ports /\ ev.type \in {"port_start", "port_exit", "port_change"})

\* What api_get_midi_event returns for the event read: false for a port or
\* client event when manual ports are off (the switch only sets "result"),
\* false when snd_midi_event_new gives no parser, false when nothing
\* decodes, true otherwise.
GetMidiEventResult(ev, new_ok) ==
    IF ~ manual_ports /\ ev.type \in AnnounceTypes THEN FALSE
    ELSE IF ~ new_ok THEN FALSE
    ELSE DecodedBytes(ev) > 0

\* The two ways a call is recorded: a call, and a call in which
\* snd_midi_event_new was reached and failed.
ReadOps == {"api_get_midi_event", "api_get_midi_event (no parser)"}

\* bool midi_alsa_info::api_get_midi_event (event * inev): reads one event.
\* No case of the switch calls port_start or port_exit, so neither the
\* busses nor the port lists change.
api_get_midi_event ==
    /\ m_alsa_seq
    /\ IF alsa_events = << >>
         THEN /\ a_ev' = NoEvent
              /\ a_ret' = 0
              /\ a_op' = "api_get_midi_event"
              /\ UNCHANGED alsa_events
         ELSE /\ a_ev' = Head(alsa_events)
              /\ alsa_events' = Tail(alsa_events)
              /\ \E new_ok \in BOOLEAN :
                    /\ a_ret' = IF GetMidiEventResult(Head(alsa_events), new_ok)
                                  THEN 1 ELSE 0
                    /\ a_op' =
                         IF /\ ~ new_ok
                            /\ ~ (~ manual_ports
                                    /\ Head(alsa_events).type \in AnnounceTypes)
                           THEN "api_get_midi_event (no parser)"
                           ELSE "api_get_midi_event"
    /\ UNCHANGED <<m_alsa_seq, sys_ports, manual_ports, manual_port_count,
                   input_ports, output_ports, m_inbus_array, m_outbus_array,
                   m_ppqn, m_bpm, queue_ppq, queue_tempo, a_init>>

\* ALSA delivers an event of any kind to the application: an announcement
\* of the system client, a subscription notice sent to a port of the
\* application, or a note.
EventArrives(type, c) ==
    /\ m_alsa_seq
    /\ Len(alsa_events) < MaxEvents
    /\ alsa_events' = Append(alsa_events, AlsaEvent(type, c, 0))
    /\ a_op' = "system"
    /\ UNCHANGED <<m_alsa_seq, sys_ports, manual_ports, manual_port_count,
                   input_ports, output_ports, m_inbus_array, m_outbus_array,
                   m_ppqn, m_bpm, queue_ppq, queue_tempo, a_init, a_ret,
                   a_ev>>

-----------------------------------------------------------------------------
(* midi_alsa_info::api_port_start *)

\* The longest bus array api_port_start still adds to.
MaxBusses == 2

\* A replacement_port that finds no bus to replace.
replacement_port_Never(busses, client, port) == -1

\* busarray::replacement_port(bus, port): the slot of a bus for that
\* client and port that is not active, or -1.
replacement_port(busses, client, port) ==
    LET m == {i \in 1 .. Len(busses) :
                /\ busses[i].client = client
                /\ busses[i].port = port
                /\ ~ is_open(busses[i])}
    IN  IF m = {} THEN -1
        ELSE (CHOOSE i \in m : \A j \in m : i <= j) - 1

\* busarray::add of a bus made for bus_slot: the bus takes the slot of the
\* bus it replaces, or is one more bus at the end.
AddAtSlot(busses, bus_slot, b) ==
    IF bus_slot < Len(busses)
      THEN [busses EXCEPT ![bus_slot + 1] = b]
      ELSE Append(busses, b)

\* One "if (CAP_FULL_... (cap) && ALSA_CLIENT_CHECK(pinfo))" block:
\* "bus_slot = count(); test = replacement_port(bus, port); if (test >= 0)
\* bus_slot = test;", then the new midibus and the add.
StartBus(busses, client, port, input) ==
    LET test == replacement_port(busses, client, port)
        bus_slot == IF test >= 0 THEN test ELSE Len(busses)
    IN  AddAtSlot(busses, bus_slot,
                  AddBus(NewBus(bus_slot,
                                PortEntry(client, port, FALSE, FALSE),
                                FALSE, input, FALSE)))

\* CAP_FULL_WRITE(cap) and CAP_FULL_READ(cap) of the port ALSA reports for
\* bus:port.  A port that is not there has no capability; a virtual input
\* port of the application is writable, a virtual output port readable.
CapFullWrite(client, port) ==
    \/ \E p \in sys_ports :
          p.client = client /\ p.port = port /\ HasOutputCaps(p)
    \/ /\ client = OwnClient
       /\ \E i \in 1 .. Len(m_inbus_array) :
             m_inbus_array[i].virtual /\ m_inbus_array[i].port = port

CapFullRead(client, port) ==
    \/ \E p \in sys_ports :
          p.client = client /\ p.port = port /\ HasInputCaps(p)
    \/ /\ client = OwnClient
       /\ \E i \in 1 .. Len(m_outbus_array) :
             m_outbus_array[i].virtual /\ m_outbus_array[i].port = port

\* ALSA_CLIENT_CHECK(pinfo): the port is not one of the application's own.
ALSA_CLIENT_CHECK(client) == client # OwnClient

\* void midi_alsa_info::api_port_start (mastermidibus &, int bus, int port)
api_port_start(bus, port) ==
    /\ m_alsa_seq
    /\ a_init
    /\ Len(m_inbus_array) <= MaxBusses
    /\ Len(m_outbus_array) <= MaxBusses
    /\ a_op' = "api_port_start"
    /\ a_ev' = AlsaEvent("port_start", bus, port)
    /\ m_outbus_array' =
          IF ALSA_CLIENT_CHECK(bus) /\ CapFullWrite(bus, port)
            THEN StartBus(m_outbus_array, bus, port, FALSE)
            ELSE m_outbus_array
    /\ m_inbus_array' =
          IF ALSA_CLIENT_CHECK(bus) /\ CapFullRead(bus, port)
            THEN StartBus(m_inbus_array, bus, port, TRUE)
            ELSE m_inbus_array
    /\ UNCHANGED <<m_alsa_seq, sys_ports, alsa_events, manual_ports,
                   manual_port_count, input_ports, output_ports, m_ppqn,
                   m_bpm, queue_ppq, queue_tempo, a_init, a_ret>>

-----------------------------------------------------------------------------
(* midi_alsa_info::api_set_ppqn and api_set_beats_per_minute *)

\* snd_seq_get_queue_tempo: the tempo structure of the queue as it is.
QueueTempo == [ppq |-> queue_ppq, tempo |-> queue_tempo]

\* A structure that is filled anew instead of read from the queue: the
\* tempo of a new ALSA queue, 120 beats per minute.
set_ppq_OfNewStructure(t, p) == [ppq |-> p, tempo |-> tempo_us_from_bpm(120)]

\* snd_seq_queue_tempo_set_ppq (tempo, p)
set_ppq(t, p) == [t EXCEPT !.ppq = p]

\* snd_seq_queue_tempo_set_tempo (tempo, unsigned(tempo_us_from_bpm(b)))
set_tempo(t, b) == [t EXCEPT !.tempo = tempo_us_from_bpm(b)]

\* void midi_alsa_info::api_set_ppqn (int p): midi_info::api_set_ppqn(p),
\* then the tempo structure of the queue is read, given the PPQ and
\* written back.  a_ret keeps the value given.
api_set_ppqn(p) ==
    /\ m_alsa_seq
    /\ a_op' = "api_set_ppqn"
    /\ a_ret' = p
    /\ m_ppqn' = p
    /\ queue_ppq' = set_ppq(QueueTempo, p).ppq
    /\ queue_tempo' = set_ppq(QueueTempo, p).tempo
    /\ UNCHANGED <<m_alsa_seq, sys_ports, alsa_events, manual_ports,
                   manual_port_count, input_ports, output_ports,
                   m_inbus_array, m_outbus_array, m_bpm, a_init, a_ev>>

\* void midi_alsa_info::api_set_beats_per_minute (midibpm b)
api_set_beats_per_minute(b) ==
    /\ m_alsa_seq
    /\ a_op' = "api_set_beats_per_minute"
    /\ a_ret' = b
    /\ m_bpm' = b
    /\ queue_ppq' = set_tempo(QueueTempo, b).ppq
    /\ queue_tempo' = set_tempo(QueueTempo, b).tempo
    /\ UNCHANGED <<m_alsa_seq, sys_ports, alsa_events, manual_ports,
                   manual_port_count, input_ports, output_ports,
                   m_inbus_array, m_outbus_array, m_ppqn, a_init, a_ev>>

-----------------------------------------------------------------------------
(* The start of the ALSA part *)

\* After the midi_alsa_info constructor: a handle or none, any ports on the
\* system, no list filled, no bus built.
InitAlsa ==
    /\ m_alsa_seq \in BOOLEAN
    /\ sys_ports \in {ps \in SUBSET SystemPorts :
                        \A p, q \in ps : p.client = q.client => p = q}
    /\ alsa_events = << >>
    /\ manual_ports \in BOOLEAN
    /\ manual_port_count \in 0 .. MaxVirtual
    /\ input_ports = << >>
    /\ output_ports = << >>
    /\ m_inbus_array = << >>
    /\ m_outbus_array = << >>
    /\ m_ppqn = 192
    /\ m_bpm = 120
    /\ queue_ppq = 96
    /\ queue_tempo = 500000
    /\ a_init = FALSE
    /\ a_op = "start"
    /\ a_ret = 0
    /\ a_ev = NoEvent

\* The ALSA part when another part is under study.
ParkedAlsa ==
    /\ m_alsa_seq = FALSE
    /\ sys_ports = {}
    /\ alsa_events = << >>
    /\ manual_ports = FALSE
    /\ manual_port_count = 0
    /\ input_ports = << >>
    /\ output_ports = << >>
    /\ m_inbus_array = << >>
    /\ m_outbus_array = << >>
    /\ m_ppqn = 192
    /\ m_bpm = 120
    /\ queue_ppq = 96
    /\ queue_tempo = 500000
    /\ a_init = FALSE
    /\ a_op = "start"
    /\ a_ret = 0
    /\ a_ev = NoEvent

-----------------------------------------------------------------------------
(* Closing an input bus while the driver thread may be in its callback *)

\* The input busses and the callbacks per bus explored.
Busses == {1, 2}

MaxCallbacks == 2

\* A close that does not wait for the driver.
NoCallbackInFlight_NoWait(b) == TRUE

\* The driver's guarantee the close waits for: no callback of this bus is
\* in flight.
NoCallbackInFlight(b) == cb_pc[b] = "idle"

\* The driver thread enters the callback of bus b, which the driver does
\* only while the native port exists, and tests is_enabled().
CallbackBegin(b) ==
    /\ cb_pc[b] = "idle"
    /\ k_native[b] = "allocated"
    /\ k_calls[b] < MaxCallbacks
    /\ k_calls' = [k_calls EXCEPT ![b] = @ + 1]
    /\ cb_new' = [cb_new EXCEPT ![b] = m_suspended[b]]
    /\ cb_pc' = [cb_pc EXCEPT ![b] = IF m_is_enabled[b] THEN "forward"
                                                        ELSE "idle"]
    /\ UNCHANGED <<m_suspended, m_is_enabled, k_native, k_close, k_late,
                   k_late_new, k_bad>>

\* The callback forwards the event it holds into the data of bus b.
CallbackForward(b) ==
    /\ cb_pc[b] = "forward"
    /\ cb_pc' = [cb_pc EXCEPT ![b] = "idle"]
    /\ k_late' = [k_late EXCEPT ![b] = @ \/ m_suspended[b]]
    /\ k_late_new' = [k_late_new EXCEPT ![b] = @ \/ cb_new[b]]
    /\ k_bad' = [k_bad EXCEPT ![b] = @ \/ k_native[b] = "freed"]
    /\ UNCHANGED <<m_suspended, m_is_enabled, k_native, k_close, cb_new,
                   k_calls>>

\* close(), first part: set_port_suspended(true) and is_enabled(false).
CloseMark(b) ==
    /\ k_close[b] = "open"
    /\ m_suspended' = [m_suspended EXCEPT ![b] = TRUE]
    /\ m_is_enabled' = [m_is_enabled EXCEPT ![b] = FALSE]
    /\ k_close' = [k_close EXCEPT ![b] = "marked"]
    /\ UNCHANGED <<k_native, cb_pc, cb_new, k_calls, k_late, k_late_new,
                   k_bad>>

\* close(), second part: the native resources go once the driver has no
\* callback of the bus in flight.
CloseDeallocate(b) ==
    /\ k_close[b] = "marked"
    /\ NoCallbackInFlight(b)
    /\ k_native' = [k_native EXCEPT ![b] = "freed"]
    /\ k_close' = [k_close EXCEPT ![b] = "freed"]
    /\ UNCHANGED <<m_suspended, m_is_enabled, cb_pc, cb_new, k_calls,
                   k_late, k_late_new, k_bad>>

\* Open, enabled input busses with no callback running.
InitClose ==
    /\ m_suspended = [b \in Busses |-> FALSE]
    /\ m_is_enabled = [b \in Busses |-> TRUE]
    /\ k_native = [b \in Busses |-> "allocated"]
    /\ k_close = [b \in Busses |-> "open"]
    /\ cb_pc = [b \in Busses |-> "idle"]
    /\ cb_new = [b \in Busses |-> FALSE]
    /\ k_calls = [b \in Busses |-> 0]
    /\ k_late = [b \in Busses |-> FALSE]
    /\ k_late_new = [b \in Busses |-> FALSE]
    /\ k_bad = [b \in Busses |-> FALSE]

ParkedClose == InitClose

-----------------------------------------------------------------------------
(* midi_jack_data: frames and pulses *)

\* The JACK frame rates, PPQN values, BPM values and pulse counts explored.
FrameRates == {44100, 48000}

PpqnSet == {96, 192, 960}

BpmSet == {60, 120, 600}

MaxPulse == 6

Pulses == (0 .. MaxPulse) \cup {961}

RECURSIVE Gcd(_, _)
Gcd(a, b) == IF b = 0 THEN a ELSE Gcd(b, a % b)

\* The fraction n/d in lowest terms; it stands for a double.
Fraction(n, d) == [n |-> n \div Gcd(n, d), d |-> d \div Gcd(n, d)]

\* The frame factor of a frame rate, ticks per beat and BPM: the frames
\* in one pulse, frame_rate * 60 / (ticks_per_beat * beats_per_minute).
FrameFactor(rate, tpb, bpm) == Fraction(rate * 60, tpb * bpm)

\* Pulses to frames with the cached factor, cut to a jack_nframes_t.
FramesFromPulses(p) ==
    (p * sm_jack_frame_factor.n) \div sm_jack_frame_factor.d

\* A conversion back that takes a pulse for a frame.
PulsesFromFrames_Unscaled(f) == f

\* Frames to pulses with the cached factor, cut to a midipulse.
PulsesFromFrames(f) ==
    (f * sm_jack_frame_factor.d) \div sm_jack_frame_factor.n

\* static void jack_frame_rate (jack_nframes_t nf)
jack_frame_rate(nf) ==
    /\ sm_jack_frame_rate' = nf
    /\ j_op' = "jack_frame_rate"
    /\ UNCHANGED <<sm_jack_ticks_per_beat, sm_jack_beats_per_minute,
                   sm_jack_frame_factor, j_pulse, j_frames, j_back>>

\* static void jack_ticks_per_beat (double tpb)
jack_ticks_per_beat(tpb) ==
    /\ sm_jack_ticks_per_beat' = tpb
    /\ j_op' = "jack_ticks_per_beat"
    /\ UNCHANGED <<sm_jack_frame_rate, sm_jack_beats_per_minute,
                   sm_jack_frame_factor, j_pulse, j_frames, j_back>>

\* static void jack_beats_per_minute (double bp)
jack_beats_per_minute(bp) ==
    /\ sm_jack_beats_per_minute' = bp
    /\ j_op' = "jack_beats_per_minute"
    /\ UNCHANGED <<sm_jack_frame_rate, sm_jack_ticks_per_beat,
                   sm_jack_frame_factor, j_pulse, j_frames, j_back>>

\* static bool recalculate_frame_factor (const jack_position_t & pos): the
\* explicit recalculation step.  It takes over what differs in the
\* transport position and, if anything did, recomputes the factor; it
\* returns whether anything changed.
recalculate_frame_factor(rate, tpb, bpm) ==
    LET changed == \/ sm_jack_frame_rate # rate
                   \/ sm_jack_ticks_per_beat # tpb
                   \/ sm_jack_beats_per_minute # bpm
    IN  /\ sm_jack_frame_rate' = rate
        /\ sm_jack_ticks_per_beat' = tpb
        /\ sm_jack_beats_per_minute' = bpm
        /\ sm_jack_frame_factor' =
              IF changed THEN FrameFactor(rate, tpb, bpm)
                         ELSE sm_jack_frame_factor
        /\ j_op' = IF changed THEN "recalculate_frame_factor (changed)"
                              ELSE "recalculate_frame_factor"
        /\ UNCHANGED <<j_pulse, j_frames, j_back>>

\* One conversion of a pulse count to frames and of those frames back.
Convert(p) ==
    /\ j_op' = "convert"
    /\ j_pulse' = p
    /\ j_frames' = FramesFromPulses(p)
    /\ j_back' = PulsesFromFrames(FramesFromPulses(p))
    /\ UNCHANGED <<sm_jack_frame_rate, sm_jack_ticks_per_beat,
                   sm_jack_beats_per_minute, sm_jack_frame_factor>>

\* After the first recalculation, for any transport position.
InitJack ==
    /\ sm_jack_frame_rate \in FrameRates
    /\ sm_jack_ticks_per_beat \in PpqnSet
    /\ sm_jack_beats_per_minute \in BpmSet
    /\ sm_jack_frame_factor =
          FrameFactor(sm_jack_frame_rate, sm_jack_ticks_per_beat,
                      sm_jack_beats_per_minute)
    /\ j_op = "start"
    /\ j_pulse = 0
    /\ j_frames = 0
    /\ j_back = 0

ParkedJack ==
    /\ sm_jack_frame_rate = 48000
    /\ sm_jack_ticks_per_beat = 192
    /\ sm_jack_beats_per_minute = 120
    /\ sm_jack_frame_factor = FrameFactor(48000, 192, 120)
    /\ j_op = "start"
    /\ j_pulse = 0
    /\ j_frames = 0
    /\ j_back = 0

-----------------------------------------------------------------------------
(* api_poll_for_midi and the SysEx loop of api_get_midi_event *)

\* static const int c_poll_wait_ms
c_poll_wait_ms == 10

\* The longest event stream explored.
MaxStream == 3

\* The events of a stream: a note, a SysEx message begun and not ended, a
\* whole SysEx message, a SysEx continuation, the end of a SysEx message,
\* and an event that is no MIDI message.
EventKinds ==
    {"note", "sysex_start", "sysex_whole", "sysex_more", "sysex_end", "other"}

RECURSIVE Streams(_)
Streams(n) ==
    IF n = 0 THEN {<< >>}
    ELSE Streams(n - 1) \cup
         {Append(st, k) : st \in {x \in Streams(n - 1) : Len(x) = n - 1},
                          k \in EventKinds}

\* snd_midi_event_decode: the bytes of the event; none for an event that
\* is no MIDI message and for "ev" pointing at no event.
SysexDecodedBytes(kind) == IF kind \in {"other", "invalid"} THEN 0 ELSE 3

\* event::is_sysex: the event starts with the SysEx status byte.
is_sysex(kind) == kind \in {"sysex_start", "sysex_whole"}

\* event::append_sysex: false once the end of the SysEx message is seen.
append_sysex(kind) == kind # "sysex_end"

\* int midi_alsa_info::api_poll_for_midi (): poll() with the timeout
\* c_poll_wait_ms returns when input is pending or the timeout is over.
SxPoll ==
    /\ s_pc = "idle"
    /\ s_waited' \in 0 .. c_poll_wait_ms
    /\ s_pc' = "polled"
    /\ UNCHANGED <<s_stream, s_ev, s_rem, s_sysex, s_ret>>

\* api_get_midi_event up to the loop: the first snd_seq_event_input, the
\* decoding, set_midi_event (its result only decides whether the loop is
\* entered) and "bool sysex = inev->is_sysex()".
SxBegin ==
    /\ s_pc = "polled"
    /\ IF s_stream = << >>
         THEN /\ s_rem' = -1
              /\ s_ev' = "invalid"
              /\ s_ret' = "false"
              /\ s_sysex' = FALSE
              /\ s_pc' = "returned"
              /\ UNCHANGED s_stream
         ELSE /\ s_ev' = Head(s_stream)
              /\ s_stream' = Tail(s_stream)
              /\ s_rem' = Len(Tail(s_stream))
              /\ IF SysexDecodedBytes(Head(s_stream)) > 0
                   THEN /\ \E result \in BOOLEAN :
                               s_sysex' = (result /\ is_sysex(Head(s_stream)))
                        /\ s_ret' = IF s_sysex' THEN s_ret ELSE "true"
                        /\ s_pc' = IF s_sysex' THEN "loop_read"
                                               ELSE "returned"
                   ELSE /\ s_sysex' = FALSE
                        /\ s_ret' = "false"
                        /\ s_pc' = "returned"
    /\ UNCHANGED s_waited

\* "int remcount = snd_seq_event_input(m_alsa_seq, &ev)" in the loop.  The
\* sequencer is opened non-blocking: with no event left the call fails at
\* once, and the loop does not look at what it returned before it uses
\* "ev", which then points at the event read before or at nothing.
SxRead ==
    /\ s_pc = "loop_read"
    /\ IF s_stream # << >>
         THEN /\ s_ev' = Head(s_stream)
              /\ s_stream' = Tail(s_stream)
              /\ s_rem' = Len(Tail(s_stream))
         ELSE /\ s_ev' \in {s_ev, "invalid"}
              /\ s_rem' = -1
              /\ UNCHANGED s_stream
    /\ s_pc' = "loop_decode"
    /\ UNCHANGED <<s_waited, s_sysex, s_ret>>

\* The rest of the loop body: "if (bytes > 0) { sysex = append_sysex();
\* if (remcount == 0) sysex = false; } else sysex = false;".
LoopContinues ==
    /\ SysexDecodedBytes(s_ev) > 0
    /\ append_sysex(s_ev)
    /\ s_rem # 0

SxDecode ==
    /\ s_pc = "loop_decode"
    /\ s_sysex' = LoopContinues
    /\ s_pc' = IF LoopContinues THEN "loop_read" ELSE "returned"
    /\ s_ret' = IF LoopContinues THEN s_ret ELSE "true"
    /\ UNCHANGED <<s_waited, s_stream, s_ev, s_rem>>

\* The input thread about to poll, with any stream of events pending.
InitSysex ==
    /\ s_pc = "idle"
    /\ s_waited = 0
    /\ s_stream \in Streams(MaxStream)
    /\ s_ev = "invalid"
    /\ s_rem = 0
    /\ s_sysex = FALSE
    /\ s_ret = "none"

ParkedSysex ==
    /\ s_pc = "idle"
    /\ s_waited = 0
    /\ s_stream = << >>
    /\ s_ev = "invalid"
    /\ s_rem = 0
    /\ s_sysex = FALSE
    /\ s_ret = "none"

-----------------------------------------------------------------------------
(* listsbase: the lists of ports, and their lines in the configuration *)

\* The longest list explored.
MaxList == 2

\* Port names and nick-names, as sequences of characters.
Names == {<< >>, <<"a">>, <<"a", "1">>, <<"a", "\"", "b">>}

NickNames ==
    {<< >>, <<"0">>, <<"1", "0">>, <<"0", "1">>, <<"-", "1">>, <<"a">>}

DigitChars == <<"0", "1", "2", "3", "4", "5", "6", "7", "8", "9">>

IsDigit(c) == \E i \in 1 .. 10 : DigitChars[i] = c

DigitValue(c) == (CHOOSE i \in 1 .. 10 : DigitChars[i] = c) - 1

\* std::string::find_first_of / find_last_of for a set of characters: the
\* position (from 1), or 0 for npos.
find_first_of(str, chars) ==
    IF \E i \in 1 .. Len(str) : str[i] \in chars
      THEN CHOOSE i \in 1 .. Len(str) :
              /\ str[i] \in chars
              /\ \A j \in 1 .. i - 1 : str[j] \notin chars
      ELSE 0

find_last_of(str, chars) ==
    IF \E i \in 1 .. Len(str) : str[i] \in chars
      THEN CHOOSE i \in 1 .. Len(str) :
              /\ str[i] \in chars
              /\ \A j \in i + 1 .. Len(str) : str[j] \notin chars
      ELSE 0

\* The value of the digits str begins with, after the digits of acc.
RECURSIVE DigitsValue(_, _)
DigitsValue(str, acc) ==
    IF str = << >> \/ ~ IsDigit(Head(str)) THEN acc
    ELSE DigitsValue(Tail(str), 10 * acc + DigitValue(Head(str)))

RECURSIVE SkipSpaces(_)
SkipSpaces(str) ==
    IF str # << >> /\ Head(str) = " " THEN SkipSpaces(Tail(str)) ELSE str

\* std::stoi: leading white space, a sign, then digits; it throws
\* std::invalid_argument when no digit stands there.
stoi(str) ==
    LET t == SkipSpaces(str)
        neg == t # << >> /\ Head(t) = "-"
        u == IF t # << >> /\ Head(t) \in {"-", "+"} THEN Tail(t) ELSE t
    IN  IF u = << >> \/ ~ IsDigit(Head(u))
          THEN [ok |-> FALSE, value |-> 0]
          ELSE [ok |-> TRUE,
                value |-> IF neg THEN 0 - DigitsValue(u, 0)
                                 ELSE DigitsValue(u, 0)]

\* std::to_string(int)
RECURSIVE NatToString(_)
NatToString(n) ==
    IF n < 10 THEN <<DigitChars[n + 1]>>
    ELSE Append(NatToString(n \div 10), DigitChars[(n % 10) + 1])

to_string(n) == IF n < 0 THEN <<"-">> \o NatToString(0 - n) ELSE NatToString(n)

\* One item of the list, as listsbase::add fills it.
IoItem(name, nickname) ==
    [io_enabled |-> TRUE, out_clock |-> "off", io_name |-> name,
     io_nick_name |-> nickname]

\* bool listsbase::add (name, nickname): an item is stored when the name is
\* not empty; the result is true when the nick-name is not empty either.
ListAdd(list, name, nickname) ==
    IF name # << >>
      THEN [list |-> Append(list, IoItem(name, nickname)),
            result |-> nickname # << >>]
      ELSE [list |-> list, result |-> FALSE]

\* std::string listsbase::port_map_list (): a line per item, the
\* nick-name, three spaces and the name in double quotes.
port_map_list(list) ==
    [i \in 1 .. Len(list) |->
        list[i].io_nick_name \o <<" ", " ", " ", "\"">> \o list[i].io_name
            \o <<"\"">>]

\* bool listsbase::add_list_line (line): "true", "false", or "throws" when
\* std::stoi finds no number at the start of the line.
add_list_line(list, line) ==
    LET none == [list |-> list, result |-> "false"]
        lpos == find_first_of(line, {"\""})
        rpos == find_last_of(line, {"\""})
        portname == SubSeq(line, lpos + 1, rpos - 1)
        added == ListAdd(list, portname, to_string(stoi(line).value))
    IN  IF find_first_of(line, {DigitChars[i] : i \in 1 .. 10}) = 0 THEN none
        ELSE IF ~ stoi(line).ok THEN [list |-> list, result |-> "throws"]
        ELSE IF lpos = 0 THEN none
        ELSE IF lpos = rpos
          THEN LET rest == ListAdd(list, SubSeq(line, lpos + 1, Len(line)),
                                   to_string(stoi(line).value))
               IN  IF SubSeq(line, lpos + 1, Len(line)) = << >> THEN none
                   ELSE [list |-> rest.list,
                         result |-> IF rest.result THEN "true" ELSE "false"]
        ELSE IF portname = << >> THEN none
        ELSE [list |-> added.list,
              result |-> IF added.result THEN "true" ELSE "false"]

\* The lines fed to add_list_line in order; an exception ends the feeding.
RECURSIVE FeedLines(_, _, _)
FeedLines(lines, list, results) ==
    IF lines = << >> THEN [list |-> list, results |-> results]
    ELSE LET r == add_list_line(list, Head(lines))
         IN  IF r.result = "throws"
               THEN [list |-> r.list, results |-> Append(results, r.result)]
               ELSE FeedLines(Tail(lines), r.list, Append(results, r.result))

\* listsbase::add called by the owner of the list.
ListsAdd(name, nickname) ==
    /\ l_op # "port_map_list"
    /\ Len(m_master_io) < MaxList
    /\ l_op' = "add"
    /\ m_master_io' = ListAdd(m_master_io, name, nickname).list
    /\ l_ret' = ListAdd(m_master_io, name, nickname).result
    /\ UNCHANGED <<l_lines, l_rebuilt, l_results>>

\* listsbase::set_nick_name (bus, name)
set_nick_name(bus, name) ==
    /\ l_op # "port_map_list"
    /\ l_op' = "set_nick_name"
    /\ m_master_io' =
          IF bus < Len(m_master_io)
            THEN [m_master_io EXCEPT ![bus + 1].io_nick_name = name]
            ELSE m_master_io
    /\ UNCHANGED <<l_ret, l_lines, l_rebuilt, l_results>>

\* The list is written with port_map_list and read back, line by line,
\* with add_list_line into an empty list; the list is complete by then.
WriteAndReadBack ==
    /\ l_op' = "port_map_list"
    /\ l_lines' = port_map_list(m_master_io)
    /\ LET r == FeedLines(port_map_list(m_master_io), << >>, << >>)
       IN  /\ l_rebuilt' = r.list
           /\ l_results' = r.results
    /\ UNCHANGED <<m_master_io, l_ret>>

InitLists ==
    /\ m_master_io = << >>
    /\ l_op = "start"
    /\ l_ret = FALSE
    /\ l_lines = << >>
    /\ l_rebuilt = << >>
    /\ l_results = << >>

ParkedLists == InitLists

-----------------------------------------------------------------------------
(* midicontrolout: the events sent for the actions of the user interface *)

\* enum class uiaction, in the order of action_to_string; max follows the
\* last one.
UiActionNames ==
    <<"play", "stop", "pause", "queue", "oneshot", "replace", "snap1",
      "snap2", "learn">>

uiaction_max == Len(UiActionNames)

\* The actions set_event is called for: the first, the last, and max.
WhatValues == {0, uiaction_max - 1, uiaction_max}

\* The int arrays given as onp and offp: status, d1 (index::data_1) and d2
\* (index::data_2).
Triples == {<<0, 0, 0>>, <<144, 1, 127>>, <<128, 2, 0>>}

\* An event as far as set_event fills it: set_status_keep_channel(status)
\* and set_data(d0, d1).
ControlEvent(status, d0, d1) == [status |-> status, d0 |-> d0, d1 |-> d1]

\* event dummy_event, with set_channel_status(0, 0)
dummy_event == ControlEvent(0, 0, 0)

\* "off.set_status_keep_channel(offp[index::status]);
\*  off.set_data(onp[index::data_1], offp[index::data_2]);"
OffEvent(onp, offp) == ControlEvent(offp[1], onp[2], offp[3])

\* "if (enabled) { if (onp[status] == 0x00 || offp[status] == 0x00) enabled
\* = false; }"
ActionStatus(enabled, onp, offp) ==
    IF enabled /\ (onp[1] = 0 \/ offp[1] = 0) THEN FALSE ELSE enabled

\* void midicontrolout::set_event (uiaction what, bool enabled, int * onp,
\* int * offp)
set_event(what, enabled, onp, offp) ==
    /\ o_op' = "set_event"
    /\ o_what' = what
    /\ o_enabled' = enabled
    /\ o_onp' = onp
    /\ o_offp' = offp
    /\ IF what < uiaction_max
         THEN /\ m_ui_events' =
                    [m_ui_events EXCEPT ![what] =
                        [att_action_status |->
                             ActionStatus(enabled, onp, offp),
                         att_action_event_on |->
                             ControlEvent(onp[1], onp[2], onp[3]),
                         att_action_event_off |-> OffEvent(onp, offp),
                         att_action_event_del |-> @.att_action_event_del]]
              /\ m_is_blank' =
                    IF ActionStatus(enabled, onp, offp) THEN FALSE
                    ELSE m_is_blank
         ELSE UNCHANGED <<m_ui_events, m_is_blank>>

\* bool midicontrolout::event_is_active (uiaction what) const
event_is_active(what) ==
    IF what < uiaction_max THEN m_ui_events[what].att_action_status
    ELSE FALSE

\* midicontrolout::initialize: an inactive triplet of dummy events for
\* every uiaction.
InitControlOut ==
    /\ m_ui_events =
          [a \in 0 .. uiaction_max - 1 |->
              [att_action_status |-> FALSE,
               att_action_event_on |-> dummy_event,
               att_action_event_off |-> dummy_event,
               att_action_event_del |-> dummy_event]]
    /\ m_is_blank = TRUE
    /\ o_op = "initialize"
    /\ o_what = 0
    /\ o_enabled = FALSE
    /\ o_onp = <<0, 0, 0>>
    /\ o_offp = <<0, 0, 0>>

ParkedControlOut == InitControlOut

-----------------------------------------------------------------------------
(* midi_api::error and the error callback *)

\* The most errors raised in one behaviour.
MaxErrors == 5

\* "if (m_first_error_occurred) return;"
Discards(first_error_occurred) == first_error_occurred

\* The owner installs or removes the error callback, between two errors.
SetErrorCallback(flag) ==
    /\ e_depth = 0
    /\ m_error_callback # flag
    /\ m_error_callback' = flag
    /\ e_op' = "set callback"
    /\ UNCHANGED <<m_first_error_occurred, e_depth, e_raised, e_delivered,
                   e_discarded, e_thrown>>

\* void midi_api::error (type, errorstring), up to the call of the
\* callback: called by the owner (e_depth = 0) or from inside the running
\* callback.  Without a callback the message is printed.
ErrorRaised ==
    /\ e_raised < MaxErrors
    /\ IF ~ m_error_callback
         THEN /\ e_op' = "error (printed)"
              /\ UNCHANGED <<m_first_error_occurred, e_depth, e_raised,
                             e_delivered, e_discarded>>
         ELSE /\ e_raised' = e_raised + 1
              /\ IF Discards(m_first_error_occurred)
                   THEN /\ e_discarded' = e_discarded + 1
                        /\ e_op' = IF e_depth > 0
                                     THEN "error (discarded in callback)"
                                     ELSE "error (discarded)"
                        /\ UNCHANGED <<m_first_error_occurred, e_depth,
                                       e_delivered>>
                   ELSE /\ m_first_error_occurred' = TRUE
                        /\ e_depth' = e_depth + 1
                        /\ e_delivered' = e_delivered + 1
                        /\ e_op' = "error (callback called)"
                        /\ UNCHANGED e_discarded
    /\ UNCHANGED <<m_error_callback, e_thrown>>

\* The callback returns: "m_first_error_occurred = false; return;".
CallbackReturns ==
    /\ e_depth > 0
    /\ e_depth' = e_depth - 1
    /\ m_first_error_occurred' = FALSE
    /\ e_op' = "callback returned"
    /\ UNCHANGED <<m_error_callback, e_raised, e_delivered, e_discarded,
                   e_thrown>>

\* The callback is left by an exception: error() is left with it, past
\* the assignment that follows the call.
CallbackThrows ==
    /\ e_depth > 0
    /\ e_depth' = 0
    /\ e_thrown' = TRUE
    /\ e_op' = "callback threw"
    /\ UNCHANGED <<m_error_callback, m_first_error_occurred, e_raised,
                   e_delivered, e_discarded>>

\* midi_api::midi_api: no callback, no error yet.
InitError ==
    /\ m_error_callback = FALSE
    /\ m_first_error_occurred = FALSE
    /\ e_depth = 0
    /\ e_raised = 0
    /\ e_delivered = 0
    /\ e_discarded = 0
    /\ e_thrown = FALSE
    /\ e_op = "start"

ParkedError == InitError

ParkedLater == ParkedLists /\ ParkedControlOut /\ ParkedError

-----------------------------------------------------------------------------
(* The specifications *)

\* The parts added after the first three, parked.
ParkedExtras ==
    ParkedThreads /\ ParkedClose /\ ParkedJack /\ ParkedSysex /\ ParkedLater

InitSpecQueue == InitQueue /\ ParkedRtmidi /\ ParkedAlsa /\ ParkedExtras

NextSpecQueue ==
    \/ Producer /\ UNCHANGED <<rvars, avars, xvars>>
    \/ pop /\ UNCHANGED <<rvars, avars, xvars>>
    \/ pop_front /\ UNCHANGED <<rvars, avars, xvars>>

SpecQueue == InitSpecQueue /\ [][NextSpecQueue]_vars

InitSpecRtmidi == InitRtmidi /\ InitQueue /\ ParkedAlsa /\ ParkedExtras

NextSpecRtmidi ==
    \/ rtmidi_in /\ UNCHANGED <<qvars, avars, xvars>>
    \/ rtmidi_out /\ UNCHANGED <<qvars, avars, xvars>>
    \/ \E api \in {"UNSPECIFIED"} \cup Apis : Reopen(api) /\ UNCHANGED <<qvars, avars, xvars>>
    \/ rtmidi_dtor /\ UNCHANGED <<qvars, avars, xvars>>
    \/ \E exists \in BOOLEAN : OpenPort(exists) /\ UNCHANGED <<qvars, avars, xvars>>
    \/ ClosePort /\ UNCHANGED <<qvars, avars, xvars>>

SpecRtmidi == InitSpecRtmidi /\ [][NextSpecRtmidi]_vars

\* The life of the API object of one bus, with the port opened, closed and
\* suspended.
InitSpecMidiApi == InitRtmidi /\ InitQueue /\ ParkedAlsa /\ ParkedExtras

NextSpecMidiApi ==
    \/ rtmidi_in /\ UNCHANGED <<qvars, avars, xvars>>
    \/ rtmidi_out /\ UNCHANGED <<qvars, avars, xvars>>
    \/ \E api \in Apis : Reopen(api) /\ UNCHANGED <<qvars, avars, xvars>>
    \/ rtmidi_dtor /\ UNCHANGED <<qvars, avars, xvars>>
    \/ \E exists \in BOOLEAN : OpenPort(exists) /\ UNCHANGED <<qvars, avars, xvars>>
    \/ ClosePort /\ UNCHANGED <<qvars, avars, xvars>>
    \/ \E flag \in BOOLEAN : SuspendPort(flag) /\ UNCHANGED <<qvars, avars, xvars>>

SpecMidiApi == InitSpecMidiApi /\ [][NextSpecMidiApi]_vars

InitSpecAlsa == InitAlsa /\ InitQueue /\ ParkedRtmidi /\ ParkedExtras

NextSpecAlsa ==
    \/ Enumerate /\ UNCHANGED <<qvars, rvars, xvars>>
    \/ \E p \in PpqnValues, b \in BpmValues :
          api_init(p, b) /\ UNCHANGED <<qvars, rvars, xvars>>
    \/ \E c \in Clients, k \in PortKinds :
          PortAppears(c, k) /\ UNCHANGED <<qvars, rvars, xvars>>
    \/ \E c \in Clients : PortExits(c) /\ UNCHANGED <<qvars, rvars, xvars>>
    \/ \E c \in Clients : NoteArrives(c) /\ UNCHANGED <<qvars, rvars, xvars>>
    \/ api_get_midi_event /\ UNCHANGED <<qvars, rvars, xvars>>

SpecAlsa == InitSpecAlsa /\ [][NextSpecAlsa]_vars

\* The mastermidibus with api_port_start called for ports that come and go.
InitSpecPortStart ==
    /\ InitAlsa /\ m_alsa_seq /\ manual_port_count = 1
    /\ InitQueue /\ ParkedRtmidi /\ ParkedExtras

NextSpecPortStart ==
    \/ Enumerate /\ UNCHANGED <<qvars, rvars, xvars>>
    \/ \E p \in PpqnValues, b \in BpmValues :
          api_init(p, b) /\ UNCHANGED <<qvars, rvars, xvars>>
    \/ \E c \in Clients, k \in PortKinds :
          PortAppears(c, k) /\ UNCHANGED <<qvars, rvars, xvars>>
    \/ \E c \in Clients : PortExits(c) /\ UNCHANGED <<qvars, rvars, xvars>>
    \/ \E c \in Clients \cup {OwnClient} :
          api_port_start(c, 0) /\ UNCHANGED <<qvars, rvars, xvars>>

SpecPortStart == InitSpecPortStart /\ [][NextSpecPortStart]_vars

\* The clock of the application and of the ALSA queue: start-up, then
\* changes of PPQN and BPM.
InitSpecClock == InitAlsa /\ InitQueue /\ ParkedRtmidi /\ ParkedExtras

NextSpecClock ==
    \/ Enumerate /\ UNCHANGED <<qvars, rvars, xvars>>
    \/ \E p \in PpqnValues, b \in BpmValues :
          api_init(p, b) /\ UNCHANGED <<qvars, rvars, xvars>>
    \/ \E p \in PpqnSet : api_set_ppqn(p) /\ UNCHANGED <<qvars, rvars, xvars>>
    \/ \E b \in BpmSet :
          api_set_beats_per_minute(b) /\ UNCHANGED <<qvars, rvars, xvars>>

SpecClock == InitSpecClock /\ [][NextSpecClock]_vars

\* The event reader alone: an open sequencer, manual ports on or off, and
\* events of every kind arriving.
InitSpecAlsaEvents ==
    /\ InitAlsa /\ m_alsa_seq /\ sys_ports = {} /\ manual_port_count = 0
    /\ InitQueue /\ ParkedRtmidi /\ ParkedExtras

NextSpecAlsaEvents ==
    \/ \E t \in AnnounceTypes \cup {"note"}, c \in Clients :
          EventArrives(t, c) /\ UNCHANGED <<qvars, rvars, xvars>>
    \/ api_get_midi_event /\ UNCHANGED <<qvars, rvars, xvars>>

SpecAlsaEvents == InitSpecAlsaEvents /\ [][NextSpecAlsaEvents]_vars

InitSpecQueueThreads ==
    InitQueue /\ InitThreads /\ ParkedRtmidi /\ ParkedAlsa /\ ParkedClose
        /\ ParkedJack /\ ParkedSysex /\ ParkedLater

NextSpecQueueThreads ==
    \/ AddTestFull /\ UNCHANGED <<rvars, avars, kvars, jvars, svars, zvars>>
    \/ AddStore /\ UNCHANGED <<rvars, avars, kvars, jvars, svars, zvars>>
    \/ AddLoadSize /\ UNCHANGED <<rvars, avars, kvars, jvars, svars, zvars>>
    \/ AddStoreSize /\ UNCHANGED <<rvars, avars, kvars, jvars, svars, zvars>>
    \/ PopTestEmpty /\ UNCHANGED <<rvars, avars, kvars, jvars, svars, zvars>>
    \/ PopLoadSize /\ UNCHANGED <<rvars, avars, kvars, jvars, svars, zvars>>
    \/ PopStoreSize /\ UNCHANGED <<rvars, avars, kvars, jvars, svars, zvars>>
    \/ PopAdvance /\ UNCHANGED <<rvars, avars, kvars, jvars, svars, zvars>>

SpecQueueThreads == InitSpecQueueThreads /\ [][NextSpecQueueThreads]_vars

InitSpecClose ==
    InitClose /\ InitQueue /\ ParkedRtmidi /\ ParkedAlsa /\ ParkedThreads
        /\ ParkedJack /\ ParkedSysex /\ ParkedLater

NextSpecClose ==
    \/ \E b \in Busses : CallbackBegin(b) /\ UNCHANGED <<qvars, rvars, avars, tvars, jvars, svars, zvars>>
    \/ \E b \in Busses : CallbackForward(b) /\ UNCHANGED <<qvars, rvars, avars, tvars, jvars, svars, zvars>>
    \/ \E b \in Busses : CloseMark(b) /\ UNCHANGED <<qvars, rvars, avars, tvars, jvars, svars, zvars>>
    \/ \E b \in Busses : CloseDeallocate(b) /\ UNCHANGED <<qvars, rvars, avars, tvars, jvars, svars, zvars>>

SpecClose == InitSpecClose /\ [][NextSpecClose]_vars

InitSpecJack ==
    InitJack /\ InitQueue /\ ParkedRtmidi /\ ParkedAlsa /\ ParkedThreads
        /\ ParkedClose /\ ParkedSysex /\ ParkedLater

NextSpecJack ==
    \/ \E nf \in FrameRates :
          jack_frame_rate(nf) /\ UNCHANGED <<qvars, rvars, avars, tvars, kvars, svars, zvars>>
    \/ \E tpb \in PpqnSet :
          jack_ticks_per_beat(tpb) /\ UNCHANGED <<qvars, rvars, avars, tvars, kvars, svars, zvars>>
    \/ \E bp \in BpmSet :
          jack_beats_per_minute(bp) /\ UNCHANGED <<qvars, rvars, avars, tvars, kvars, svars, zvars>>
    \/ \E nf \in FrameRates, tpb \in PpqnSet, bp \in BpmSet :
          recalculate_frame_factor(nf, tpb, bp)
             /\ UNCHANGED <<qvars, rvars, avars, tvars, kvars, svars, zvars>>
    \/ \E p \in Pulses : Convert(p) /\ UNCHANGED <<qvars, rvars, avars, tvars, kvars, svars, zvars>>

SpecJack == InitSpecJack /\ [][NextSpecJack]_vars

InitSpecSysex ==
    InitSysex /\ InitQueue /\ ParkedRtmidi /\ ParkedAlsa /\ ParkedThreads
        /\ ParkedClose /\ ParkedJack /\ ParkedLater

NextSpecSysex ==
    \/ SxPoll /\ UNCHANGED <<qvars, rvars, avars, tvars, kvars, jvars, zvars>>
    \/ SxBegin /\ UNCHANGED <<qvars, rvars, avars, tvars, kvars, jvars, zvars>>
    \/ SxRead /\ UNCHANGED <<qvars, rvars, avars, tvars, kvars, jvars, zvars>>
    \/ SxDecode /\ UNCHANGED <<qvars, rvars, avars, tvars, kvars, jvars, zvars>>

\* The input thread is scheduled: a call that can take a step takes it.
SpecSysex ==
    InitSpecSysex /\ [][NextSpecSysex]_vars /\ WF_vars(NextSpecSysex)

InitSpecLists ==
    InitLists /\ InitQueue /\ ParkedRtmidi /\ ParkedAlsa /\ ParkedThreads
        /\ ParkedClose /\ ParkedJack /\ ParkedSysex /\ ParkedControlOut /\ ParkedError

NextSpecLists ==
    \/ \E n \in Names, k \in NickNames :
          ListsAdd(n, k) /\ UNCHANGED <<qvars, rvars, avars, tvars, kvars, jvars, svars, ovars, evars>>
    \/ \E b \in 0 .. MaxList, k \in NickNames :
          set_nick_name(b, k) /\ UNCHANGED <<qvars, rvars, avars, tvars, kvars, jvars, svars, ovars, evars>>
    \/ WriteAndReadBack /\ UNCHANGED <<qvars, rvars, avars, tvars, kvars, jvars, svars, ovars, evars>>

SpecLists == InitSpecLists /\ [][NextSpecLists]_vars

InitSpecControlOut ==
    InitControlOut /\ InitQueue /\ ParkedRtmidi /\ ParkedAlsa /\ ParkedThreads
        /\ ParkedClose /\ ParkedJack /\ ParkedSysex /\ ParkedLists /\ ParkedError

NextSpecControlOut ==
    \/ \E what \in WhatValues, enabled \in BOOLEAN, onp \in Triples,
          offp \in Triples :
          /\ set_event(what, enabled, onp, offp)
          /\ UNCHANGED <<qvars, rvars, avars, tvars, kvars, jvars, svars, lvars, evars>>

SpecControlOut == InitSpecControlOut /\ [][NextSpecControlOut]_vars

InitSpecError ==
    InitError /\ InitQueue /\ ParkedRtmidi /\ ParkedAlsa /\ ParkedThreads
        /\ ParkedClose /\ ParkedJack /\ ParkedSysex /\ ParkedLists
        /\ ParkedControlOut

NextSpecError ==
    \/ \E flag \in BOOLEAN :
          SetErrorCallback(flag) /\ UNCHANGED <<qvars, rvars, avars, tvars, kvars, jvars, svars, lvars, ovars>>
    \/ ErrorRaised /\ UNCHANGED <<qvars, rvars, avars, tvars, kvars, jvars, svars, lvars, ovars>>
    \/ CallbackReturns /\ UNCHANGED <<qvars, rvars, avars, tvars, kvars, jvars, svars, lvars, ovars>>
    \/ CallbackThrows /\ UNCHANGED <<qvars, rvars, avars, tvars, kvars, jvars, svars, lvars, ovars>>

SpecError == InitSpecError /\ [][NextSpecError]_vars

-----------------------------------------------------------------------------
(* Properties of midi_queue *)

C2_DropIsCounted ==
    [][(q_op' = "add" /\ q_ret' = FALSE)
        => \E i \in 1 .. Len(QueueCounters) :
              QueueCounters'[i] = QueueCounters[i] + 1]_vars

\* C2, the part the queue does keep: add() returns false exactly when the
\* queue was full, and then no member changes; otherwise it returns true
\* and the message is the newest one queued.
C2_RejectLeavesQueue ==
    [][q_op' = "add" =>
        /\ q_ret' = (m_size < m_ring_size)
        /\ m_size = m_ring_size => UNCHANGED <<m_front, m_back, m_size, m_ring>>
        /\ m_size < m_ring_size =>
              /\ m_size' = m_size + 1
              /\ QueueContents' = Append(QueueContents, q_adds')]_vars

-----------------------------------------------------------------------------
(* Properties of rtmidi and midi_api *)

\* A constructor has just run with no API selected beforehand.
ProbedUnspecified ==
    /\ rt_op \in {"rtmidi_in", "rtmidi_out"}
    /\ rt_sel0 = "UNSPECIFIED"

\* The API of the object the rtmidi holds, or "none".
BoundApi == IF m_midi_api = NullApi THEN "none" ELSE heap[m_midi_api].api

Closes == {"api_deinit_out", "api_deinit_out (again)"}

C10_AtMostOneApi ==
    /\ DOMAIN heap = IF m_midi_api = NullApi THEN {} ELSE {m_midi_api}
    /\ m_midi_api \in {NullApi, 1}
    /\ rt_obj = "none" => m_midi_api = NullApi

\* C10 witness: openmidi_api was called on a constructed rtmidi and left it
\* with an API object.
C10_Witness ==
    /\ rt_op = "openmidi_api"
    /\ rt_obj \in {"in", "out"}
    /\ m_midi_api # NullApi

-----------------------------------------------------------------------------
(* Properties of the ALSA registry and of mastermidibus *)

Enumerations == {"get_all_port_info", "get_all_port_info (again)"}

AllBusses == m_inbus_array \o m_outbus_array

\* C6: once api_get_midi_event has read the port-exit announcement of a
\* port that backs an open bus, and while that port stays away, the bus is
\* suspended or no longer open.
C6_PortExitSuspendsBus ==
    (/\ a_op = "api_get_midi_event"
     /\ a_ev.type = "port_exit"
     /\ ~ \E p \in sys_ports : p.client = a_ev.client)
        => \A i \in 1 .. Len(AllBusses) :
              (AllBusses[i].client = a_ev.client /\ AllBusses[i].port = a_ev.port)
                 => \/ is_port_suspended(AllBusses[i].api)
                    \/ ~ is_port_open(AllBusses[i].api)

\* The other part of C6, which holds: an enumeration lists no port that
\* is not on the system when it runs.
C6_EnumerationListsPresentPorts ==
    (a_op \in Enumerations /\ m_alsa_seq)
        => \A i \in 1 .. Len(input_ports \o output_ports) :
              LET e == (input_ports \o output_ports)[i]
              IN  e = AnnounceEntry \/ \E p \in sys_ports : p.client = e.client

NoDuplicates(list) ==
    \A i, j \in 1 .. Len(list) : list[i] = list[j] => i = j

\* C7: a get_all_port_info() that follows another one, with no change of
\* the system's ports in between, leaves the input list, the output list
\* and the return value as they were, and no list holds an entry twice.
C7_EnumerationIdempotent ==
    [][a_op' = "get_all_port_info (again)"
          => /\ input_ports' = input_ports
             /\ output_ports' = output_ports
             /\ a_ret' = a_ret
             /\ NoDuplicates(input_ports')
             /\ NoDuplicates(output_ports')]_vars

\* A second enumeration in a row, with a handle and ports in both lists.
C7_Witness ==
    /\ a_op = "get_all_port_info (again)"
    /\ m_alsa_seq
    /\ Len(input_ports) >= 2
    /\ Len(output_ports) >= 1

\* C8: after get_all_port_info(), the return value is -1 exactly when no
\* port is listed; with a valid sequencer handle it is at least 1 and the
\* first input entry is the announce port, client 0 port 1.
C8_ErrorDistinctFromEmpty ==
    a_op \in Enumerations
        => /\ (a_ret = -1) <=> (input_ports = << >> /\ output_ports = << >>)
           /\ m_alsa_seq
                => /\ a_ret >= 1
                   /\ a_ret = Len(input_ports) + Len(output_ports)
                   /\ input_ports[1] = AnnounceEntry
                   /\ input_ports[1].client = 0
                   /\ input_ports[1].port = 1

\* An enumeration with a handle and no other client's port on the system:
\* the announce port alone is listed and counted.
C8_Witness ==
    /\ a_op \in Enumerations
    /\ m_alsa_seq
    /\ sys_ports = {}
    /\ a_ret = 1
    /\ input_ports = <<AnnounceEntry>>

-----------------------------------------------------------------------------
(* Properties of midi_queue under two threads *)

\* Neither thread is inside add() or pop_front().
Quiescent == p_pc = "idle" /\ c_pc = "idle"

\* C11: whenever no add and no pop is in progress, m_size is the number
\* of accepted adds minus the number of pops and lies in 0..m_ring_size,
\* so empty() and full() report the state the queue is in.
C11_SizeTracksAddsAndPops ==
    Quiescent =>
        /\ m_size = Len(q_sent) - Len(q_recv)
        /\ m_size \in 0 .. m_ring_size
        /\ empty <=> Len(q_sent) = Len(q_recv)
        /\ full <=> Len(q_sent) - Len(q_recv) = m_ring_size

\* What holds all the same: the two indices are each written by one thread
\* only and stay inside the ring, and "--m_size" never starts from 0.
C11_IndicesInRing ==
    /\ m_front \in 0 .. m_ring_size - 1
    /\ m_back \in 0 .. m_ring_size - 1
    /\ c_pc = "dec" => c_reg >= 1

-----------------------------------------------------------------------------
(* The count of dropped messages *)

\* The add() calls that returned false so far.
Drops == q_adds - Len(q_sent)

\* C13: while the queue overflows (a full queue has just rejected an add),
\* the queue holds a count of the dropped messages, and that count is the
\* number of pushes minus the pops minus what the ring still holds.
C13_DropsAreCounted ==
    (q_op = "add" /\ q_ret = FALSE) =>
        \E i \in 1 .. Len(QueueCounters) :
            /\ QueueCounters[i] = Drops
            /\ QueueCounters[i] = q_adds - Len(q_recv) - m_size

\* What holds: the rejected adds, counted from the return values by the
\* caller, are the pushes minus the pops minus the queued messages.
C13_DropIdentity == Drops = q_adds - Len(q_recv) - m_size

-----------------------------------------------------------------------------
(* Properties of closing a bus *)

-----------------------------------------------------------------------------
(* Hotplug notifications and the registry *)

\* The port lists hold an entry for a port of client c.
Listed(c) ==
    \E i \in 1 .. Len(input_ports \o output_ports) :
        (input_ports \o output_ports)[i].client = c

\* On the system now there is a generic MIDI port of client c.
Present(c) == \E p \in sys_ports : p.client = c /\ ~ check_port_type(p)

\* C14: once api_get_midi_event has read a port-start or port-exit
\* announcement, the registry's lists are patched: a port that started
\* and is still there is listed, a port that exited and is still away is
\* not.
C14_HotplugPatchesRegistry ==
    a_op = "api_get_midi_event" =>
        /\ (a_ev.type = "port_start" /\ Present(a_ev.client))
              => Listed(a_ev.client)
        /\ (a_ev.type = "port_exit" /\ ~ Present(a_ev.client))
              => ~ Listed(a_ev.client)

\* What the code does instead: reading an event changes neither the port
\* lists nor the busses.
C14_ReadingChangesNothing ==
    [][a_op' \in ReadOps
          => UNCHANGED <<input_ports, output_ports, m_inbus_array,
                         m_outbus_array>>]_vars

-----------------------------------------------------------------------------
(* Properties of the frame factor *)

Abs(x) == IF x < 0 THEN 0 - x ELSE x

C16_FactorNeverStale ==
    j_op = "convert" =>
        sm_jack_frame_factor =
            FrameFactor(sm_jack_frame_rate, sm_jack_ticks_per_beat,
                        sm_jack_beats_per_minute)

\* What holds: a recalculation that finds a change leaves a factor derived
\* from the values it took over.
C16_RecalculationIsFresh ==
    j_op = "recalculate_frame_factor (changed)" =>
        sm_jack_frame_factor =
            FrameFactor(sm_jack_frame_rate, sm_jack_ticks_per_beat,
                        sm_jack_beats_per_minute)

-----------------------------------------------------------------------------
(* Properties of polling and of the SysEx loop *)

\* C17: api_poll_for_midi waits no longer than c_poll_wait_ms, and every
\* api_get_midi_event call returns.
C17_NothingBlocksForever ==
    /\ [](s_waited <= c_poll_wait_ms)
    /\ (s_pc = "polled") ~> (s_pc = "returned")

\* The part of C17 that holds: the poll is bounded by the timeout.
C17_PollIsBounded == s_waited \in 0 .. c_poll_wait_ms

\* Another part that holds: a call returns unless a read of its loop fails.
C17_ReturnsUnlessReadFails ==
    (s_pc = "polled") ~> (s_pc = "returned" \/ (s_pc = "loop_decode" /\ s_rem < 0))

-----------------------------------------------------------------------------
(* Properties of the rtmidi constructors and of openmidi_api *)

\* The constructor that has just run was given a selected API for which
\* the build has no class.
UnsupportedSelection ==
    /\ rt_sel0 # "UNSPECIFIED"
    /\ ~ Compiled(rt_sel0)

\* What the fallback loop of the constructors gives in this build.
FallbackFindsApi ==
    ProbeApis(RtState(NullApi, << >>), rt_sel0, get_compiled_api).st.api
        # NullApi

\* C18: rtmidi_in, like rtmidi_out, given a selected API without system
\* support goes on as if none was selected: it ends with the API object
\* the fallback loop finds, or throws rterror when that finds none.
C18_UnsupportedSelectionFallsBack ==
    (rt_op \in {"rtmidi_in", "rtmidi_out"} /\ UnsupportedSelection) =>
        IF FallbackFindsApi
          THEN rt_ret = "constructed" /\ m_midi_api # NullApi
          ELSE rt_ret = "rterror" /\ rt_obj = "none"

\* The part of C18 that holds: rtmidi_out does so, and both constructors
\* do when no API is selected.
C18_OutAndUnspecifiedFallBack ==
    (/\ rt_op \in {"rtmidi_in", "rtmidi_out"}
     /\ \/ rt_op = "rtmidi_out" /\ UnsupportedSelection
        \/ rt_sel0 = "UNSPECIFIED") =>
        IF FallbackFindsApi
          THEN rt_ret = "constructed" /\ m_midi_api # NullApi
          ELSE rt_ret = "rterror" /\ rt_obj = "none"

\* What rtmidi_in does instead: it is constructed without an API object.
C18_InKeepsNoApi ==
    (rt_op = "rtmidi_in" /\ UnsupportedSelection) =>
        rt_ret = "constructed" /\ m_midi_api = NullApi

\* C19: openmidi_api called with RTMIDI_API_UNSPECIFIED ends with an API
\* object whenever a back end is compiled in.
C19_UnspecifiedOpensBackend ==
    (/\ rt_op = "openmidi_api"
     /\ rt_ret = "UNSPECIFIED"
     /\ Compiled("JACK") \/ Compiled("ALSA")) =>
        m_midi_api # NullApi

\* What the code does: with RTMIDI_API_UNSPECIFIED no API object is built
\* in any build, and the one held before is destroyed.
C19_UnspecifiedOpensNothing ==
    (rt_op = "openmidi_api" /\ rt_ret = "UNSPECIFIED") =>
        m_midi_api = NullApi /\ heap = << >>

\* An explicit API with a class in the build does give an API object.
C19_ExplicitOpensBackend ==
    (rt_op = "openmidi_api" /\ rt_ret \in Apis /\ Compiled(rt_ret)) =>
        m_midi_api # NullApi /\ heap[m_midi_api].api = rt_ret

-----------------------------------------------------------------------------
(* Properties of the result of api_get_midi_event *)

-----------------------------------------------------------------------------
(* Properties of api_init without manual ports *)

\* Bus i of the array is the bus of entry i of the list: same index, same
\* client and port, and of the given direction.
OneBusPerEntry(busses, list, input) ==
    /\ Len(busses) = Len(list)
    /\ \A i \in 1 .. Len(list) :
          /\ busses[i].index = i - 1
          /\ busses[i].client = list[i].client
          /\ busses[i].port = list[i].port
          /\ busses[i].virtual = list[i].virtual
          /\ busses[i].input = input

\* C21: after api_init with manual ports off there is exactly one bus for
\* every enumerated port, at the index the port has in its list: an input
\* bus for every port the application can read from (a MIDI output of the
\* system), an output bus for every port it can write to (a MIDI input of
\* the system).
C21_OneBusPerEnumeratedPort ==
    (a_init /\ ~ manual_ports) =>
        /\ OneBusPerEntry(m_inbus_array, input_ports, TRUE)
        /\ OneBusPerEntry(m_outbus_array, output_ports, FALSE)

\* The scenario: the announce port and a readable port give two input
\* busses, a writable port gives an output bus.
C21_Witness ==
    /\ a_op = "api_init"
    /\ ~ manual_ports
    /\ Len(input_ports) = 2
    /\ Len(output_ports) >= 1
    /\ Len(m_inbus_array) = 2
    /\ Len(m_outbus_array) >= 1

-----------------------------------------------------------------------------
(* Properties of the port flags of midi_api *)

C22_FreshObjectNotSuspended ==
    (rt_op \in {"rtmidi_in", "rtmidi_out", "openmidi_api"}
        /\ m_midi_api # NullApi) =>
        /\ ~ is_port_suspended(heap[m_midi_api])
        /\ ~ is_port_open(heap[m_midi_api])

\* And a port is suspended by set_port_suspended only.
C22_OnlySetterSuspends ==
    [][(m_midi_api' # NullApi /\ is_port_suspended(heap'[m_midi_api'])
          /\ ~ (m_midi_api = m_midi_api'
                  /\ is_port_suspended(heap[m_midi_api])))
        => rt_op' = "set_port_suspended"]_vars

-----------------------------------------------------------------------------
(* Properties of api_port_start *)

\* The slots of the busses for client:port that are not active.
InactiveSlots(busses, client, port) ==
    {i \in 1 .. Len(busses) :
        /\ busses[i].client = client
        /\ busses[i].port = port
        /\ ~ busses[i].api.m_connected}

\* What one array may become when api_port_start is given client:port,
\* "has" telling whether the port has the capability of the array.
StartedAs(old, new, client, port, has) ==
    IF client = OwnClient \/ ~ has THEN new = old
    ELSE IF InactiveSlots(old, client, port) # {}
      THEN /\ Len(new) = Len(old)
           /\ \E i \in InactiveSlots(old, client, port) :
                 /\ new[i].index = i - 1
                 /\ new[i].client = client
                 /\ new[i].port = port
                 /\ \A j \in 1 .. Len(old) : j # i => new[j] = old[j]
      ELSE /\ Len(new) = Len(old) + 1
           /\ \A i \in 1 .. Len(old) : new[i] = old[i]
           /\ new[Len(new)].client = client
           /\ new[Len(new)].port = port

-----------------------------------------------------------------------------
(* Properties of the lines of a port list *)

\* The names and nick-names of a list, in order.
NamesAndNickNames(list) ==
    [i \in 1 .. Len(list) |-> <<list[i].io_name, list[i].io_nick_name>>]

\* C24: every line port_map_list gives is taken by add_list_line (true),
\* and the lines, fed in order to an empty list, give a list with the same
\* names and nick-names in the same order.
C24_LinesParseBack ==
    l_op = "port_map_list" =>
        /\ Len(l_results) = Len(l_lines)
        /\ \A i \in 1 .. Len(l_results) : l_results[i] = "true"
        /\ NamesAndNickNames(l_rebuilt) = NamesAndNickNames(m_master_io)

\* A nick-name that is the decimal form of a bus number.
IsBusNumber(nick) ==
    /\ nick # << >>
    /\ \A i \in 1 .. Len(nick) : IsDigit(nick[i])
    /\ Len(nick) > 1 => nick[1] # "0"

\* What does hold: the lines of a list whose nick-names are all bus
\* numbers parse back to the same names and nick-names.
C24_NumberedLinesParseBack ==
    (l_op = "port_map_list"
        /\ \A i \in 1 .. Len(m_master_io) :
              IsBusNumber(m_master_io[i].io_nick_name)) =>
        /\ Len(l_results) = Len(l_lines)
        /\ \A i \in 1 .. Len(l_results) : l_results[i] = "true"
        /\ NamesAndNickNames(l_rebuilt) = NamesAndNickNames(m_master_io)

\* And add_list_line may throw on a line of port_map_list.
C24_NeverThrows ==
    \A i \in 1 .. Len(l_results) : l_results[i] # "throws"

-----------------------------------------------------------------------------
(* Properties of midicontrolout::set_event *)

\* C25: after set_event(what, enabled, onp, offp) with what < uiaction::max
\* the on event holds the three values of onp, the off event the three
\* values of offp, and the action is active exactly if enabled is true
\* and neither status is 0.
C25_SetEventStoresBoth ==
    (o_op = "set_event" /\ o_what < uiaction_max) =>
        /\ m_ui_events[o_what].att_action_event_on
              = ControlEvent(o_onp[1], o_onp[2], o_onp[3])
        /\ m_ui_events[o_what].att_action_event_off
              = ControlEvent(o_offp[1], o_offp[2], o_offp[3])
        /\ event_is_active(o_what)
              <=> (o_enabled /\ o_onp[1] # 0 /\ o_offp[1] # 0)

\* What does hold: the on event and the activity are as the claim says,
\* and the off event has the status and d2 of offp but the d1 of onp.
C25_OffEventTakesD1OfOn ==
    (o_op = "set_event" /\ o_what < uiaction_max) =>
        /\ m_ui_events[o_what].att_action_event_on
              = ControlEvent(o_onp[1], o_onp[2], o_onp[3])
        /\ m_ui_events[o_what].att_action_event_off
              = ControlEvent(o_offp[1], o_onp[2], o_offp[3])
        /\ event_is_active(o_what)
              <=> (o_enabled /\ o_onp[1] # 0 /\ o_offp[1] # 0)

\* And set_event with what = uiaction::max changes nothing.
C25_MaxIsIgnored ==
    [][(o_op' = "set_event" /\ o_what' >= uiaction_max)
          => UNCHANGED <<m_ui_events, m_is_blank>>]_vars

-----------------------------------------------------------------------------
(* Properties of midi_api::error *)

\* C26: the callback is never invoked while it is running, an error
\* raised while it runs is discarded, and once the outer call has ended
\* m_first_error_occurred is false, so that no error raised outside the
\* callback is discarded.
C26_NoReentryAndFlagCleared ==
    /\ e_depth <= 1
    /\ e_depth = 0 => ~ m_first_error_occurred
    /\ e_op # "error (discarded)"

\* What does hold: the callback is never invoked while it is running, and
\* every error is either handed to it or discarded; while it runs the flag
\* is set; once the outer call has ended the flag is false if every
\* callback returned, and it is true, with every later error discarded,
\* once a callback was left by an exception.
C26_NoReentryFlagClearedOnReturn ==
    /\ e_depth <= 1
    /\ e_raised = e_delivered + e_discarded
    /\ e_depth = 1 => m_first_error_occurred
    /\ e_depth = 0 => (m_first_error_occurred <=> e_thrown)
    /\ e_op = "error (discarded)" => e_thrown
    /\ e_op = "error (callback called)" => ~ e_thrown

-----------------------------------------------------------------------------
(* Properties of the clock *)

\* C27: api_set_ppqn(p) leaves the PPQN of midi_info and the PPQ of the
\* ALSA queue both equal to p and the tempo of the queue and the BPM as
\* they were; api_set_beats_per_minute(b) leaves the BPM of midi_info
\* equal to b and the tempo of the queue that of b, and the PPQ of the
\* queue and the PPQN as they were.
C27_ClockAndQueueInStep ==
    [][/\ a_op' = "api_set_ppqn" =>
            /\ m_ppqn' = a_ret'
            /\ queue_ppq' = a_ret'
            /\ queue_tempo' = queue_tempo
            /\ m_bpm' = m_bpm
       /\ a_op' = "api_set_beats_per_minute" =>
            /\ m_bpm' = a_ret'
            /\ queue_tempo' = 60000000 \div a_ret'
            /\ queue_ppq' = queue_ppq
            /\ m_ppqn' = m_ppqn]_vars

\* The scenario: the BPM was set to 60, then the PPQN to 960; the queue
\* has the PPQ 960 and still the tempo of 60 beats per minute.
C27_Witness ==
    /\ a_op = "api_set_ppqn"
    /\ m_ppqn = 960
    /\ queue_ppq = 960
    /\ m_bpm = 60
    /\ queue_tempo = 1000000

====
